---- MODULE Spec2Model ----
(***************************************************************************)
(* A model of the InvestorFinder chatbot backend: the conversation context *)
(* (deduplicated lists), the investor pagination window, the chat message  *)
(* classification, the search cache with its TTL and key normalisation,    *)
(* the conversation memory service with its eviction, and the provider     *)
(* registry's caching factories.                                           *)
(*                                                                         *)
(* Strings are sequences of code points (Python str), so that lower(),     *)
(* sorted(), join and substring tests are computed as the code computes    *)
(* them.                                                                   *)
(***************************************************************************)
EXTENDS Integers, Sequences, FiniteSets, TLC

VARIABLES
    \* ---- ConversationContext (memory_service.py, one context on its own)
    context,        \* the context's lists and updated_at
    ctxOp,          \* the last add_* call made on it
    \* ---- InvestorService pagination (investor_service.py)
    all_investors,  \* InvestorService._all_investors
    pgWalk,         \* a caller paging through it: size, next page, pages so far, last return
    \* ---- ChatService message classification (chat_service.py)
    message,        \* the message of the turn
    msgClass,       \* what the classifiers returned for it
    \* ---- InvestorService._cache_key (investor_service.py)
    keyQuery,       \* two queries (sectors, location, num_results)
    keyOf,          \* the cache key computed for each, once computed
    \* ---- InvestorService search cache (investor_service.py)
    cache,          \* InvestorService._cache: key -> entry (ts, investors, search_results)
    search_cache_ttl_minutes,   \* Settings.search_cache_ttl_minutes
    cacheOp,        \* the last cache call: its key and what it returned
    \* ---- MemoryService (memory_service.py)
    conversations,  \* MemoryService._conversations, in the dict's insertion order
    files,          \* the <id>.json files under the persistence path
    memCfg,         \* what configure() set
    memOp,          \* the last call: how it got its context, what the cleanup logged
    \* ---- provider Registry and its factories (core/providers.py)
    providers,      \* Registry._providers: kind -> lowered name -> class
    instances,      \* Registry._instances: kind -> lowered key -> cached instance
    objects,        \* every provider instance constructed so far
    calls,          \* the get_llm / get_search / get_scraper coroutines
    sweep,          \* the Registry.cleanup_all coroutine: where its loops are
    \* ---- InvestorService.find_investors (investor_service.py)
    find,           \* the find_investors coroutine: where it is, what it did, what it returned
    parked,         \* another find_investors coroutine of the service, not running now
    search_max_retries,     \* Settings.search_max_retries
    \* ---- InvestorService._enrich_investor_profiles (investor_service.py)
    enrich,         \* the coroutine and its enrich_one tasks: input, semaphore, results
    linkedin_max_concurrency,   \* Settings.linkedin_max_concurrency
    linkedin_scrape_delay,      \* Settings.linkedin_scrape_delay
    \* ---- ChatService turns (chat_service.py)
    turns,          \* the process_message / process_message_stream coroutines
    pagination_state,   \* ChatService._pagination_state: conversation id -> cursor
    \* ---- clocks
    utcnow,         \* datetime.utcnow(), in hours
    clock           \* time.time(), in seconds

ctxVars == <<context, ctxOp>>
pageVars == <<all_investors, pgWalk>>
msgVars == <<message, msgClass>>
keyVars == <<keyQuery, keyOf>>
cacheVars == <<cache, search_cache_ttl_minutes, cacheOp>>
memVars == <<conversations, files, memCfg, memOp>>
regVars == <<providers, instances, objects, calls, sweep>>
findVars == <<find, parked, search_max_retries>>
enrichVars == <<enrich, linkedin_max_concurrency, linkedin_scrape_delay>>
chatVars == <<turns, pagination_state>>
clockVars == <<utcnow, clock>>
vars == <<ctxVars, pageVars, msgVars, keyVars, cacheVars, memVars, regVars, findVars, enrichVars, chatVars, clockVars>>

\* what an action of one component leaves alone: the other components
exceptCtx == <<pageVars, msgVars, keyVars, cacheVars, memVars, regVars, findVars, enrichVars, chatVars>>
exceptPage == <<ctxVars, msgVars, keyVars, cacheVars, memVars, regVars, findVars, enrichVars, chatVars>>
exceptMsg == <<ctxVars, pageVars, keyVars, cacheVars, memVars, regVars, findVars, enrichVars, chatVars>>
exceptKey == <<ctxVars, pageVars, msgVars, cacheVars, memVars, regVars, findVars, enrichVars, chatVars>>
exceptCache == <<ctxVars, pageVars, msgVars, keyVars, memVars, regVars, findVars, enrichVars, chatVars>>
exceptMem == <<ctxVars, pageVars, msgVars, keyVars, cacheVars, regVars, findVars, enrichVars, chatVars>>
exceptReg == <<ctxVars, pageVars, msgVars, keyVars, cacheVars, memVars, findVars, enrichVars, chatVars>>
exceptFind == <<ctxVars, pageVars, msgVars, keyVars, cacheVars, memVars, regVars, enrichVars, chatVars>>
exceptEnrich == <<ctxVars, pageVars, msgVars, keyVars, cacheVars, memVars, regVars, findVars, chatVars>>
exceptChat == <<ctxVars, pageVars, msgVars, keyVars, cacheVars, memVars, regVars, findVars, enrichVars>>

\* Optional values are sequences: <<>> is None, <<v>> is the value v
None == <<>>
Some(v) == <<v>>
Get(o) == o[1]

----------------------------------------------------------------------------
(* Strings *)

\* str.lower() on one code point: 'A'..'Z' -> 'a'..'z', everything else kept
LowerChar(c) == IF c >= 65 /\ c <= 90 THEN c + 32 ELSE c

\* str.lower()
Lower(s) == [i \in 1..Len(s) |-> LowerChar(s[i])]

\* for x in seq, as a set
Range(s) == {s[i] : i \in 1..Len(s)}

----------------------------------------------------------------------------
(* ConversationContext *)

\* Bounds of the inputs
MaxListLen == 2
MaxNow == 2

\* Names, URLs and sector tags the calls draw from: case variants of the same
\* word and different words
S_Al == <<65, 108>>
S_al == <<97, 108>>
S_AL == <<65, 76>>
S_Bo == <<66, 111>>
S_bo == <<98, 111>>
Names == {S_Al, S_al, S_Bo}
Urls == {S_Al, S_al}
SectorTags == {S_AL, S_al, S_bo}

InvestorProfile(name) == [name |-> name]
SearchResult(url) == [url |-> url]

\* all sequences over S of length 0..n
SeqUpTo(S, n) == UNION {[1..k -> S] : k \in 0..n}

\* ConversationContext(conversation_id=id), made at time t (created_at and
\* metadata, which no operation reads or changes afterwards, and the messages'
\* timestamps are left out)
ConversationContext(id, t) ==
    [conversation_id |-> id, messages |-> <<>>, investors |-> <<>>,
     search_results |-> <<>>, sectors_discussed |-> <<>>, updated_at |-> t]

\* ConversationContext.add_message
AddMessage(ctx, role, content, t) ==
    [ctx EXCEPT !.messages = Append(ctx.messages, [role |-> role, content |-> content]),
                !.updated_at = t]

\* the loop of add_investors over investors[i..], with the running existing_names
RECURSIVE AddInvestorsLoop(_, _, _, _)
AddInvestorsLoop(stored, existing_names, investors, i) ==
    IF i > Len(investors) THEN stored
    ELSE IF Lower(investors[i].name) \notin existing_names
         THEN AddInvestorsLoop(Append(stored, investors[i]),
                               existing_names \cup {Lower(investors[i].name)},
                               investors, i + 1)
         ELSE AddInvestorsLoop(stored, existing_names, investors, i + 1)

\* the same loop with existing_names never extended: a duplicate inside one
\* input list is then stored twice
RECURSIVE AddInvestorsLoopNoAdd(_, _, _, _)
AddInvestorsLoopNoAdd(stored, existing_names, investors, i) ==
    IF i > Len(investors) THEN stored
    ELSE IF Lower(investors[i].name) \notin existing_names
         THEN AddInvestorsLoopNoAdd(Append(stored, investors[i]),
                                    existing_names, investors, i + 1)
         ELSE AddInvestorsLoopNoAdd(stored, existing_names, investors, i + 1)

AddInvestorsStaleNames(ctx, investors, t) ==
    [ctx EXCEPT
        !.investors = AddInvestorsLoopNoAdd(
            ctx.investors, {Lower(inv.name) : inv \in Range(ctx.investors)},
            investors, 1),
        !.updated_at = t]

\* ConversationContext.add_investors
AddInvestors(ctx, investors, t) ==
    [ctx EXCEPT
        !.investors = AddInvestorsLoop(
            ctx.investors, {Lower(inv.name) : inv \in Range(ctx.investors)},
            investors, 1),
        !.updated_at = t]

RECURSIVE AddSearchResultsLoop(_, _, _, _)
AddSearchResultsLoop(stored, existing_urls, results, i) ==
    IF i > Len(results) THEN stored
    ELSE IF results[i].url \notin existing_urls
         THEN AddSearchResultsLoop(Append(stored, results[i]),
                                   existing_urls \cup {results[i].url},
                                   results, i + 1)
         ELSE AddSearchResultsLoop(stored, existing_urls, results, i + 1)

\* ConversationContext.add_search_results
AddSearchResults(ctx, results, t) ==
    [ctx EXCEPT
        !.search_results = AddSearchResultsLoop(
            ctx.search_results, {r.url : r \in Range(ctx.search_results)},
            results, 1),
        !.updated_at = t]

\* the loop of add_sectors: each sector is compared with the list as it is then
RECURSIVE AddSectorsLoop(_, _, _)
AddSectorsLoop(stored, sectors, i) ==
    IF i > Len(sectors) THEN stored
    ELSE IF Lower(sectors[i]) \notin {Lower(s) : s \in Range(stored)}
         THEN AddSectorsLoop(Append(stored, sectors[i]), sectors, i + 1)
         ELSE AddSectorsLoop(stored, sectors, i + 1)

\* ConversationContext.add_sectors
AddSectors(ctx, sectors, t) ==
    [ctx EXCEPT !.sectors_discussed = AddSectorsLoop(ctx.sectors_discussed, sectors, 1),
                !.updated_at = t]

InitCtx ==
    /\ context = ConversationContext("c1", 0)
    /\ ctxOp = [op |-> "new", dup |-> FALSE]

IdleCtx ==
    /\ context = ConversationContext("c1", 0)
    /\ ctxOp = [op |-> "idle", dup |-> FALSE]

\* a list that repeats a key inside itself
HasDup(keys) == \E i, j \in 1..Len(keys) : i < j /\ keys[i] = keys[j]

CtxAddInvestors ==
    \E names \in SeqUpTo(Names, MaxListLen) :
        /\ context' = AddInvestors(
               context, [i \in 1..Len(names) |-> InvestorProfile(names[i])], utcnow)
        /\ ctxOp' = [op |-> "add_investors",
                     dup |-> HasDup([i \in 1..Len(names) |-> Lower(names[i])])]
        /\ UNCHANGED <<exceptCtx, clockVars>>

CtxAddSearchResults ==
    \E urls \in SeqUpTo(Urls, MaxListLen) :
        /\ context' = AddSearchResults(
               context, [i \in 1..Len(urls) |-> SearchResult(urls[i])], utcnow)
        /\ ctxOp' = [op |-> "add_search_results", dup |-> HasDup(urls)]
        /\ UNCHANGED <<exceptCtx, clockVars>>

CtxAddSectors ==
    \E tags \in SeqUpTo(SectorTags, MaxListLen) :
        /\ context' = AddSectors(context, tags, utcnow)
        /\ ctxOp' = [op |-> "add_sectors",
                     dup |-> HasDup([i \in 1..Len(tags) |-> Lower(tags[i])])]
        /\ UNCHANGED <<exceptCtx, clockVars>>

\* datetime.utcnow() moves on between calls
TickUtc ==
    /\ utcnow < MaxNow
    /\ utcnow' = utcnow + 1
    /\ UNCHANGED <<ctxVars, exceptCtx, clock>>

NextCtx == CtxAddInvestors \/ CtxAddSearchResults \/ CtxAddSectors \/ TickUtc


\* C1: after any sequence of add_investors, add_search_results and add_sectors
\* calls on a context that started empty, no two stored investors have names
\* equal ignoring case, no two stored search results have the same URL, and no
\* two stored sector tags are equal ignoring case.
C1_NoDuplicates ==
    /\ \A i, j \in 1..Len(context.investors) :
          i # j => Lower(context.investors[i].name) # Lower(context.investors[j].name)
    /\ \A i, j \in 1..Len(context.search_results) :
          i # j => context.search_results[i].url # context.search_results[j].url
    /\ \A i, j \in 1..Len(context.sectors_discussed) :
          i # j => Lower(context.sectors_discussed[i]) # Lower(context.sectors_discussed[j])

\* an input list with a duplicate inside itself was added to a context that
\* holds investors, search results and sectors, two of each
C1_Witness ==
    /\ ctxOp.op = "add_investors" /\ ctxOp.dup
    /\ Len(context.investors) = 2
    /\ Len(context.search_results) = 2
    /\ Len(context.sectors_discussed) = 2

----------------------------------------------------------------------------
(* InvestorService.get_paginated_investors *)

MaxInvestors == 7
MaxPageSize == 3
MaxPage == 4

Min(a, b) == IF a < b THEN a ELSE b

\* list[start:end] for 0 <= start, 0 <= end <= len(list)
Slice(list, start, end) ==
    IF start >= end THEN <<>> ELSE [i \in 1..(end - start) |-> list[start + i]]

\* the same function with has_more = (end_idx <= total)
GetPaginatedInvestorsHasMoreLeq(investors, page, page_size) ==
    LET total == Len(investors)
        start_idx == page * page_size
        end_idx == Min(start_idx + page_size, total)
    IN  IF start_idx >= total
        THEN [investors |-> <<>>, total |-> total, has_more |-> FALSE]
        ELSE [investors |-> Slice(investors, start_idx, end_idx),
              total |-> total, has_more |-> (end_idx <= total)]

\* InvestorService.get_paginated_investors: (investors_on_page, total_count, has_more)
GetPaginatedInvestors(investors, page, page_size) ==
    LET total == Len(investors)
        start_idx == page * page_size
        end_idx == Min(start_idx + page_size, total)
    IN  IF start_idx >= total
        THEN [investors |-> <<>>, total |-> total, has_more |-> FALSE]
        ELSE [investors |-> Slice(investors, start_idx, end_idx),
              total |-> total, has_more |-> (end_idx < total)]

\* "Investor i"
InvestorNo(i) == InvestorProfile(<<73, 48 + i>>)

NoWalk == [page_size |-> 1, next_page |-> 0, pages |-> <<>>, last |-> None]

IdlePage ==
    /\ all_investors = <<>>
    /\ pgWalk = NoWalk

InitPage ==
    /\ all_investors \in {[i \in 1..n |-> InvestorNo(i)] : n \in 0..MaxInvestors}
    /\ pgWalk = NoWalk

\* a caller starts paging from page 0 with some page size
PageStart ==
    \E size \in 1..MaxPageSize :
        /\ pgWalk' = [page_size |-> size, next_page |-> 0, pages |-> <<>>, last |-> None]
        /\ UNCHANGED <<all_investors, exceptPage, clockVars>>

\* the caller asks for its next page
PageNext ==
    /\ pgWalk.next_page <= MaxPage
    /\ LET r == GetPaginatedInvestors(all_investors, pgWalk.next_page, pgWalk.page_size)
       IN  pgWalk' = [page_size |-> pgWalk.page_size,
                      next_page |-> pgWalk.next_page + 1,
                      pages |-> pgWalk.pages \o r.investors,
                      last |-> Some([page |-> pgWalk.next_page, ret |-> r])]
    /\ UNCHANGED <<all_investors, exceptPage, clockVars>>

NextPage == PageStart \/ PageNext

\* C2: get_paginated_investors(p, size) returns the slice
\* [p*size, min(p*size+size, total)), the true total and
\* has_more = ((p+1)*size < total); the pages for p = 0, 1, 2, ... concatenated
\* reproduce the stored list in order, and a page that starts at or past the
\* end is empty with the true total and has_more = false.
C2_Pagination ==
    pgWalk.last # None =>
        LET p == Get(pgWalk.last).page
            size == pgWalk.page_size
            r == Get(pgWalk.last).ret
            total == Len(all_investors)
            lo == p * size
            hi == Min(lo + size, total)
        IN  /\ Len(r.investors) = (IF lo < hi THEN hi - lo ELSE 0)
            /\ \A i \in 1..Len(r.investors) : r.investors[i] = all_investors[lo + i]
            /\ r.total = total
            /\ r.has_more = ((p + 1) * size < total)
            /\ (lo >= total => r.investors = <<>> /\ ~r.has_more)
            /\ pgWalk.pages = SubSeq(all_investors, 1, Min((p + 1) * size, total))
            /\ (~r.has_more => pgWalk.pages = all_investors)

\* a walk over a list whose length is no multiple of the page size has fetched
\* the last, partial page and then a page past the end
C2_Witness ==
    /\ pgWalk.last # None
    /\ Len(all_investors) = 5 /\ pgWalk.page_size = 2
    /\ Get(pgWalk.last).page = 3
    /\ pgWalk.pages = all_investors

----------------------------------------------------------------------------
(* ChatService: classification of a message *)

MaxFragments == 3

\* ChatService.SEARCH_TRIGGERS
SEARCH_TRIGGERS ==
    <<
      <<105, 110, 118, 101, 115, 116, 111, 114>>,    \* "investor"
      <<105, 110, 118, 101, 115, 116, 111, 114, 115>>,    \* "investors"
      <<105, 110, 118, 101, 115, 116, 109, 101, 110, 116>>,    \* "investment"
      <<105, 110, 118, 101, 115, 116>>,    \* "invest"
      <<102, 117, 110, 100, 105, 110, 103>>,    \* "funding"
      <<99, 97, 112, 105, 116, 97, 108>>,    \* "capital"
      <<114, 97, 105, 115, 101>>,    \* "raise"
      <<114, 97, 105, 115, 105, 110, 103>>,    \* "raising"
      <<102, 105, 110, 100>>,    \* "find"
      <<115, 101, 97, 114, 99, 104>>,    \* "search"
      <<108, 111, 111, 107, 32, 102, 111, 114>>,    \* "look for"
      <<108, 111, 111, 107, 105, 110, 103, 32, 102, 111, 114>>,    \* "looking for"
      <<115, 116, 97, 114, 116, 117, 112>>,    \* "startup"
      <<118, 101, 110, 116, 117, 114, 101>>,    \* "venture"
      <<118, 99>>,    \* "vc"
      <<97, 110, 103, 101, 108>>,    \* "angel"
      <<115, 101, 101, 100>>,    \* "seed"
      <<115, 101, 114, 105, 101, 115, 32, 97>>,    \* "series a"
      <<115, 101, 114, 105, 101, 115, 32, 98>>    \* "series b"
    >>

\* ChatService.MORE_INVESTORS_TRIGGERS
MORE_INVESTORS_TRIGGERS ==
    <<
      <<109, 111, 114, 101>>,    \* "more"
      <<110, 101, 120, 116>>,    \* "next"
      <<99, 111, 110, 116, 105, 110, 117, 101>>,    \* "continue"
      <<115, 104, 111, 119, 32, 109, 111, 114, 101>>,    \* "show more"
      <<97, 100, 100, 105, 116, 105, 111, 110, 97, 108>>,    \* "additional"
      <<111, 116, 104, 101, 114, 32, 105, 110, 118, 101, 115, 116, 111, 114, 115>>,    \* "other investors"
      <<114, 101, 109, 97, 105, 110, 105, 110, 103>>,    \* "remaining"
      <<110, 101, 120, 116, 32, 49, 48>>,    \* "next 10"
      <<109, 111, 114, 101, 32, 105, 110, 118, 101, 115, 116, 111, 114, 115>>    \* "more investors"
    >>

\* trigger in message: a contiguous substring
Contains(sub, s) ==
    \E i \in 0..(Len(s) - Len(sub)) : SubSeq(s, i + 1, i + Len(sub)) = sub

\* any(trigger in message_lower for trigger in triggers)
AnyTrigger(triggers, message_lower) ==
    \E k \in 1..Len(triggers) : Contains(triggers[k], message_lower)

\* ChatService._is_pagination_request
IsPaginationRequest(msg) == AnyTrigger(MORE_INVESTORS_TRIGGERS, Lower(msg))

\* _should_search_investors without its pagination guard
ShouldSearchInvestorsNoGuard(msg) == AnyTrigger(SEARCH_TRIGGERS, Lower(msg))

\* ChatService._should_search_investors
ShouldSearchInvestors(msg) ==
    IF IsPaginationRequest(msg) THEN FALSE
    ELSE AnyTrigger(SEARCH_TRIGGERS, Lower(msg))

\* the branch process_message_stream takes for a message
StreamBranch(msg) ==
    IF IsPaginationRequest(msg) THEN "pagination"
    ELSE IF ShouldSearchInvestors(msg) THEN "search"
    ELSE "plain"

\* Pieces the messages are put together from: pagination words, search words,
\* neutral text, upper and lower case, and halves of a trigger
F_more == <<109, 111, 114, 101>>    \* "more"
F_Next == <<78, 101, 120, 116>>    \* "Next"
F_ten == <<32, 49, 48>>    \* " 10"
F_show == <<83, 104, 111, 119, 32>>    \* "Show "
F_find == <<102, 105, 110, 100>>    \* "find"
F_INVESTORS == <<32, 73, 78, 86, 69, 83, 84, 79, 82, 83>>    \* " INVESTORS"
F_vc == <<118, 99>>    \* "vc"
F_hello == <<104, 101, 108, 108, 111>>    \* "hello"
F_ne == <<110, 101>>    \* "ne"
F_xt == <<120, 116>>    \* "xt"
Fragments == {F_more, F_Next, F_ten, F_show, F_find, F_INVESTORS, F_vc, F_hello, F_ne, F_xt}

RECURSIVE Concat(_)
Concat(ss) == IF ss = <<>> THEN <<>> ELSE Head(ss) \o Concat(Tail(ss))

Unclassified == [is_pagination |-> FALSE, should_search |-> FALSE, branch |-> "none"]

\* the turn's message is any of the bounded messages
InitMsg ==
    /\ message \in {Concat(frs) : frs \in SeqUpTo(Fragments, MaxFragments)}
    /\ msgClass = Unclassified

IdleMsg ==
    /\ message = <<>>
    /\ msgClass = Unclassified

\* the turn classifies its message
Classify ==
    /\ msgClass.branch = "none"
    /\ msgClass' = [is_pagination |-> IsPaginationRequest(message),
                    should_search |-> ShouldSearchInvestors(message),
                    branch |-> StreamBranch(message)]
    /\ UNCHANGED <<message, exceptMsg, clockVars>>

NextMsg == Classify

\* C3: no message is classified both as a pagination request and as a
\* new-search request: a message with a pagination trigger is never a search
\* request, also when it holds search triggers, and the streaming turn takes
\* the search branch only for a message that is no pagination request.
C3_PaginationExcludesSearch ==
    /\ ~(msgClass.is_pagination /\ msgClass.should_search)
    /\ (msgClass.branch # "none" /\ AnyTrigger(MORE_INVESTORS_TRIGGERS, Lower(message))
            => msgClass.is_pagination /\ ~msgClass.should_search)
    /\ (msgClass.branch = "search" => ~msgClass.is_pagination)
    /\ (msgClass.branch = "pagination" => ~msgClass.should_search)

\* a classified message that holds a pagination trigger and a search trigger,
\* in upper case
C3_Witness ==
    /\ msgClass.branch = "pagination"
    /\ AnyTrigger(SEARCH_TRIGGERS, Lower(message))
    /\ Lower(message) # message

----------------------------------------------------------------------------
(* InvestorService._cache_key *)

MaxSectors == 2

\* a < b for Python str: by code point, a proper prefix first
RECURSIVE StrLess(_, _)
StrLess(a, b) ==
    IF b = <<>> THEN FALSE
    ELSE IF a = <<>> THEN TRUE
    ELSE IF Head(a) # Head(b) THEN Head(a) < Head(b)
    ELSE StrLess(Tail(a), Tail(b))

\* x put into the sorted list after every element that is not greater (stable)
RECURSIVE InsertSorted(_, _)
InsertSorted(sorted, x) ==
    IF sorted = <<>> THEN <<x>>
    ELSE IF StrLess(x, Head(sorted)) THEN <<x>> \o sorted
    ELSE <<Head(sorted)>> \o InsertSorted(Tail(sorted), x)

\* sorted(list) for a list of str
RECURSIVE Sorted(_)
Sorted(list) ==
    IF list = <<>> THEN <<>>
    ELSE InsertSorted(Sorted(SubSeq(list, 1, Len(list) - 1)), list[Len(list)])

\* sep.join(list)
RECURSIVE Join(_, _)
Join(sep, list) ==
    IF list = <<>> THEN <<>>
    ELSE IF Len(list) = 1 THEN list[1]
    ELSE list[1] \o sep \o Join(sep, Tail(list))

\* str(n) for n >= 0
RECURSIVE IntToStr(_)
IntToStr(n) ==
    IF n < 10 THEN <<48 + n>> ELSE IntToStr(n \div 10) \o <<48 + (n % 10)>>

COMMA == <<44>>
BAR == <<124>>

\* the key built from the sectors in the order given, not sorted
CacheKeyUnsorted(sectors, location, num_results) ==
    LET sectors_key == Join(COMMA, [i \in 1..Len(sectors) |-> Lower(sectors[i])])
    IN  sectors_key \o BAR \o Lower(location) \o BAR \o IntToStr(num_results)

\* InvestorService._cache_key
CacheKey(sectors, location, num_results) ==
    LET sectors_key == Join(COMMA, Sorted([i \in 1..Len(sectors) |-> Lower(sectors[i])]))
    IN  sectors_key \o BAR \o Lower(location) \o BAR \o IntToStr(num_results)

\* Sector names, locations and result counts the queries draw from
S_AI == <<65, 73>>    \* "AI"
S_ai == <<97, 105>>    \* "ai"
S_Bio == <<66, 105, 111>>    \* "Bio"
S_NYC == <<78, 89, 67>>    \* "NYC"
S_nyc == <<110, 121, 99>>    \* "nyc"
KeySectors == {S_AI, S_ai, S_Bio}
KeyLocations == {S_NYC, S_nyc}
KeyCounts == {10, 30}

Queries ==
    [sectors : SeqUpTo(KeySectors, MaxSectors), location : KeyLocations,
     num_results : KeyCounts]

\* two queries and, once _cache_key has been called on each, their keys
InitKey ==
    /\ keyQuery \in [1..2 -> Queries]
    /\ keyOf = [i \in 1..2 |-> None]

IdleKey ==
    /\ keyQuery = [i \in 1..2 |-> [sectors |-> <<>>, location |-> <<>>, num_results |-> 0]]
    /\ keyOf = [i \in 1..2 |-> None]

CacheKeyCall(i) ==
    /\ keyOf[i] = None
    /\ keyOf' = [keyOf EXCEPT
                    ![i] = Some(CacheKey(keyQuery[i].sectors, keyQuery[i].location,
                                         keyQuery[i].num_results))]
    /\ UNCHANGED <<keyQuery, exceptKey, clockVars>>

NextKey == \E i \in 1..2 : CacheKeyCall(i)

\* how often x occurs in a list
Count(list, x) == Cardinality({i \in 1..Len(list) : list[i] = x})

\* the sector lists are permutations of each other up to letter case
SamePermUpToCase(s1, s2) ==
    /\ Len(s1) = Len(s2)
    /\ \A i \in 1..Len(s1) :
          Count([k \in 1..Len(s1) |-> Lower(s1[k])], Lower(s1[i]))
              = Count([k \in 1..Len(s2) |-> Lower(s2[k])], Lower(s1[i]))

\* C5: the cache key is the same for two queries whose sector lists are
\* permutations of each other up to letter case, whose locations are equal up
\* to letter case and whose result counts are equal.
C5_CacheKeyNormalised ==
    (/\ keyOf[1] # None /\ keyOf[2] # None
     /\ SamePermUpToCase(keyQuery[1].sectors, keyQuery[2].sectors)
     /\ Lower(keyQuery[1].location) = Lower(keyQuery[2].location)
     /\ keyQuery[1].num_results = keyQuery[2].num_results)
        => keyOf[1] = keyOf[2]

\* the keys of ["AI", "Bio"], "NYC" and of ["Bio", "ai"], "nyc" have been computed
C5_Witness ==
    /\ keyOf[1] # None /\ keyOf[2] # None
    /\ keyQuery[1].sectors = <<S_AI, S_Bio>> /\ keyQuery[1].location = S_NYC
    /\ keyQuery[2].sectors = <<S_Bio, S_ai>> /\ keyQuery[2].location = S_nyc
    /\ keyQuery[1].num_results = keyQuery[2].num_results


\* sector names and locations with the key's separators in them
K_a == <<97>>                   \* "a"
K_b == <<98>>                   \* "b"
K_a_comma_b == <<97, 44, 98>>   \* "a,b"
K_a_bar_y == <<97, 124, 121>>   \* "a|y"
K_x == <<120>>                  \* "x"
K_y_bar_x == <<121, 124, 120>>  \* "y|x"
SepSectors == {K_a, K_b, K_a_comma_b, K_a_bar_y}
SepLocations == {K_x, K_y_bar_x}

SepQueries ==
    [sectors : SeqUpTo(SepSectors, MaxSectors), location : SepLocations, num_results : {10}]

\* two queries whose strings may hold "," and "|"
InitKeySep ==
    /\ keyQuery \in [1..2 -> SepQueries]
    /\ keyOf = [i \in 1..2 |-> None]

\* the normalized forms of two queries are the same
SameNormalForm(q1, q2) ==
    /\ SamePermUpToCase(q1.sectors, q2.sectors)
    /\ Lower(q1.location) = Lower(q2.location)
    /\ q1.num_results = q2.num_results

\* C29: two queries whose normalized forms differ (another multiset of
\* lowercased sectors, another lowercased location or another result count)
\* never get the same cache key, also when sector or location strings hold
\* "," or "|".
C29_KeyInjective ==
    (/\ keyOf[1] # None /\ keyOf[2] # None
     /\ ~SameNormalForm(keyQuery[1], keyQuery[2]))
        => keyOf[1] # keyOf[2]

----------------------------------------------------------------------------
(* InvestorService._get_cached / _set_cached: the search cache *)

\* time.time() is followed in steps of TickSeconds up to MaxClock
MaxClock == 120
TickSeconds == 20

\* Settings.search_cache_ttl_minutes as configured (default 20)
TtlMinutesChoices == {-1, 0, 1}

\* the keys of two queries
CacheKeys == {CacheKey(<<S_AI>>, S_NYC, 10), CacheKey(<<S_Bio, S_ai>>, S_nyc, 30)}

\* what find_investors may hand to _set_cached
CachedInvestorLists == {<<InvestorProfile(S_Al)>>, <<InvestorProfile(S_Bo), InvestorProfile(S_al)>>}
CachedResultLists == {<<SearchResult(S_Al)>>}

\* _get_cached without its test of the entry's age
GetCachedNoTtl(c, key, now, ttl_minutes) ==
    IF c[key] = None THEN [ret |-> None, cache |-> c, branch |-> "miss"]
    ELSE [ret |-> c[key], cache |-> c, branch |-> "hit"]

\* _get_cached with the entry kept until now - ts >= ttl and never popped
GetCachedNoEvict(c, key, now, ttl_minutes) ==
    LET cached == c[key]
        ttl_seconds == ttl_minutes * 60
    IN  IF cached = None
        THEN [ret |-> None, cache |-> c, branch |-> "miss"]
        ELSE IF now - Get(cached).ts > ttl_seconds
        THEN [ret |-> None, cache |-> c, branch |-> "stale"]
        ELSE [ret |-> cached, cache |-> c, branch |-> "hit"]

\* InvestorService._get_cached: what it returns and the cache it leaves
GetCached(c, key, now, ttl_minutes) ==
    LET cached == c[key]
        ttl_seconds == ttl_minutes * 60
    IN  IF cached = None
        THEN [ret |-> None, cache |-> c, branch |-> "miss"]
        ELSE IF now - Get(cached).ts > ttl_seconds
        THEN [ret |-> None, cache |-> [c EXCEPT ![key] = None], branch |-> "stale"]
        ELSE [ret |-> cached, cache |-> c, branch |-> "hit"]

\* _set_cached without its test of the TTL
SetCachedAlways(c, key, investors, search_results, now, ttl_minutes) ==
    [c EXCEPT ![key] = Some([ts |-> now, investors |-> investors,
                             search_results |-> search_results])]

\* InvestorService._set_cached: the cache it leaves
SetCached(c, key, investors, search_results, now, ttl_minutes) ==
    LET ttl_seconds == ttl_minutes * 60
    IN  IF ttl_seconds <= 0 THEN c
        ELSE [c EXCEPT ![key] = Some([ts |-> now, investors |-> investors,
                                      search_results |-> search_results])]

NoCacheOp == [op |-> "none", key |-> <<>>, ret |-> None, branch |-> "none"]

InitCache ==
    /\ cache = [k \in CacheKeys |-> None]
    /\ search_cache_ttl_minutes \in TtlMinutesChoices
    /\ cacheOp = NoCacheOp

IdleCache ==
    /\ cache = [k \in CacheKeys |-> None]
    /\ search_cache_ttl_minutes = 0
    /\ cacheOp = NoCacheOp

CacheGet ==
    \E key \in CacheKeys :
        LET r == GetCached(cache, key, clock, search_cache_ttl_minutes)
        IN  /\ cache' = r.cache
            /\ cacheOp' = [op |-> "get", key |-> key, ret |-> r.ret, branch |-> r.branch]
            /\ UNCHANGED <<search_cache_ttl_minutes, exceptCache, clockVars>>

CacheSet ==
    \E key \in CacheKeys, investors \in CachedInvestorLists,
       search_results \in CachedResultLists :
        /\ cache' = SetCached(cache, key, investors, search_results, clock,
                              search_cache_ttl_minutes)
        /\ cacheOp' = [op |-> "set", key |-> key,
                       ret |-> Some([ts |-> clock, investors |-> investors,
                                     search_results |-> search_results]),
                       branch |-> "none"]
        /\ UNCHANGED <<search_cache_ttl_minutes, exceptCache, clockVars>>

\* time.time() moves on between calls
TickClock ==
    /\ clock + TickSeconds <= MaxClock
    /\ clock' = clock + TickSeconds
    /\ cacheOp' = [cacheOp EXCEPT !.op = "tick"]
    /\ UNCHANGED <<cache, search_cache_ttl_minutes, exceptCache, utcnow>>

NextCache == CacheGet \/ CacheSet \/ TickClock

\* C4: with a positive TTL, _set_cached stores the pair with the current time;
\* a later _get_cached(key) while now - storedAt <= ttl returns the stored pair
\* unchanged and keeps it; once now - storedAt > ttl it returns absent and the
\* stale entry is gone from the cache, and an absent entry stays absent (every
\* get returns absent) until a new _set_cached for that key.
C4_CacheRoundTrip ==
    [][search_cache_ttl_minutes > 0 =>
        /\ (cacheOp'.op = "set" =>
               /\ cache'[cacheOp'.key] = cacheOp'.ret
               /\ Get(cache'[cacheOp'.key]).ts = clock)
        /\ (cacheOp'.op = "get" =>
               LET key == cacheOp'.key
                   ttl == search_cache_ttl_minutes * 60
               IN  IF cache[key] # None /\ clock - Get(cache[key]).ts <= ttl
                   THEN cacheOp'.ret = cache[key] /\ cache'[key] = cache[key]
                   ELSE cacheOp'.ret = None /\ cache'[key] = None)
        /\ \A k \in CacheKeys :
               (cache[k] = None /\ cache'[k] # None) =>
                   cacheOp'.op = "set" /\ cacheOp'.key = k
    ]_vars

\* a get found an entry stored under a positive TTL too old, removed it and
\* returned absent, while the other key's entry is still cached
C4_Witness ==
    /\ search_cache_ttl_minutes > 0
    /\ cacheOp.op = "get" /\ cacheOp.branch = "stale" /\ cacheOp.ret = None
    /\ cache[cacheOp.key] = None
    /\ \E k \in CacheKeys : cache[k] # None

----------------------------------------------------------------------------
(* MemoryService: the conversations held in memory, their files, eviction *)

\* The conversation ids the calls draw from
ConvIds == {"c1", "c2", "c3"}

\* MemoryService.configure: the ceiling on conversations, the TTL in hours, the
\* ceiling on a conversation's messages, whether a persistence path is set
MemConfigs ==
    {[max_conversations |-> 1, ttl_hours |-> 1, max_messages |-> 1, persistence |-> FALSE],
     [max_conversations |-> 2, ttl_hours |-> 1, max_messages |-> 1, persistence |-> FALSE],
     [max_conversations |-> 1, ttl_hours |-> 1, max_messages |-> 1, persistence |-> TRUE]}

\* What one turn hands to build_context_for_llm: nothing new, or new investors,
\* search results and sectors
NoTurnData == [investors |-> <<>>, search_results |-> <<>>, sectors |-> <<>>]
FoundTurnData ==
    [investors |-> <<InvestorProfile(S_Al), InvestorProfile(S_al)>>,
     search_results |-> <<SearchResult(S_Al)>>, sectors |-> <<S_bo>>]
M_hi == <<104, 105>>    \* "hi"
M_ok == <<111, 107>>    \* "ok"

\* the position of conversation id in the dict (0: not in it); a dict keeps
\* its keys in insertion order
IndexOf(convs, id) ==
    IF \E i \in 1..Len(convs) : convs[i].conversation_id = id
    THEN CHOOSE i \in 1..Len(convs) : convs[i].conversation_id = id
    ELSE 0

IdsOf(convs) == {convs[i].conversation_id : i \in 1..Len(convs)}

\* self._conversations[ctx.conversation_id] = ctx
PutConv(convs, ctx) ==
    LET i == IndexOf(convs, ctx.conversation_id)
    IN  IF i = 0 THEN Append(convs, ctx) ELSE [convs EXCEPT ![i] = ctx]

\* del self._conversations[cid] for every cid in ids
RECURSIVE DelConvs(_, _)
DelConvs(convs, ids) ==
    IF convs = <<>> THEN <<>>
    ELSE IF Head(convs).conversation_id \in ids THEN DelConvs(Tail(convs), ids)
    ELSE <<Head(convs)>> \o DelConvs(Tail(convs), ids)

\* ConversationContext.to_dict, as written to <id>.json
ToDict(ctx) ==
    [conversation_id |-> ctx.conversation_id,
     messages |-> [i \in 1..Len(ctx.messages) |->
                      [role |-> ctx.messages[i].role, content |-> ctx.messages[i].content]],
     investors |-> ctx.investors,
     search_results |-> ctx.search_results,
     sectors_discussed |-> ctx.sectors_discussed,
     updated_at |-> ctx.updated_at]

\* ConversationContext.from_dict: the lists are appended as stored, with no
\* deduplication, and updated_at is the stored one
FromDict(data) ==
    [conversation_id |-> data.conversation_id,
     messages |-> [i \in 1..Len(data.messages) |->
                      [role |-> data.messages[i].role, content |-> data.messages[i].content]],
     investors |-> data.investors,
     search_results |-> data.search_results,
     sectors_discussed |-> data.sectors_discussed,
     updated_at |-> data.updated_at]

\* MemoryService._load_from_file
LoadFromFile(fs, cfg, id) ==
    IF ~cfg.persistence THEN None
    ELSE IF fs[id] = None THEN None
    ELSE Some(FromDict(Get(fs[id])))

\* MemoryService._save_to_file
SaveToFile(fs, cfg, ctx) ==
    IF ~cfg.persistence THEN fs
    ELSE [fs EXCEPT ![ctx.conversation_id] = Some(ToDict(ctx))]

\* x put into the list sorted by updated_at, after every element that is not
\* newer: sorted() is stable
RECURSIVE InsertByUpdatedAt(_, _)
InsertByUpdatedAt(sorted, x) ==
    IF sorted = <<>> THEN <<x>>
    ELSE IF x.updated_at < Head(sorted).updated_at THEN <<x>> \o sorted
    ELSE <<Head(sorted)>> \o InsertByUpdatedAt(Tail(sorted), x)

\* sorted(self._conversations.items(), key=lambda x: x[1].updated_at)
RECURSIVE SortedByUpdatedAt(_)
SortedByUpdatedAt(convs) ==
    IF convs = <<>> THEN <<>>
    ELSE InsertByUpdatedAt(SortedByUpdatedAt(SubSeq(convs, 1, Len(convs) - 1)),
                           convs[Len(convs)])

IdSeq(convs) == [i \in 1..Len(convs) |-> convs[i].conversation_id]

NoCleanup(convs) == [convs |-> convs, over |-> FALSE, expired |-> <<>>, old |-> <<>>]

\* _cleanup_old_conversations that removes the newest contexts in its second step
CleanupNewestFirst(convs, now, cfg) ==
    IF Len(convs) <= cfg.max_conversations THEN NoCleanup(convs)
    ELSE
        LET cutoff_time == now - cfg.ttl_hours
            expired == IdSeq(SelectSeq(convs, LAMBDA c : c.updated_at < cutoff_time))
            rest == DelConvs(convs, Range(expired))
        IN  IF Len(rest) > cfg.max_conversations
            THEN LET sorted_convs == SortedByUpdatedAt(rest)
                     to_remove == Len(rest) - cfg.max_conversations
                     old == IdSeq(SubSeq(sorted_convs, Len(rest) - to_remove + 1, Len(rest)))
                 IN  [convs |-> DelConvs(rest, Range(old)), over |-> TRUE,
                      expired |-> expired, old |-> old]
            ELSE [convs |-> rest, over |-> TRUE, expired |-> expired, old |-> <<>>]

\* MemoryService._cleanup_old_conversations: the dict it leaves, whether the
\* count was above the ceiling, and the ids it logs as expired and as old
Cleanup(convs, now, cfg) ==
    IF Len(convs) <= cfg.max_conversations THEN NoCleanup(convs)
    ELSE
        LET cutoff_time == now - cfg.ttl_hours
            expired == IdSeq(SelectSeq(convs, LAMBDA c : c.updated_at < cutoff_time))
            rest == DelConvs(convs, Range(expired))
        IN  IF Len(rest) > cfg.max_conversations
            THEN LET sorted_convs == SortedByUpdatedAt(rest)
                     to_remove == Len(rest) - cfg.max_conversations
                     old == IdSeq(SubSeq(sorted_convs, 1, to_remove))
                 IN  [convs |-> DelConvs(rest, Range(old)), over |-> TRUE,
                      expired |-> expired, old |-> old]
            ELSE [convs |-> rest, over |-> TRUE, expired |-> expired, old |-> <<>>]

\* get_or_create_conversation without its membership test: a new context takes
\* the place of the one held
GetOrCreateAlwaysCreates(convs, fs, cfg, id, now) ==
    [convs |-> PutConv(convs, ConversationContext(id, now)), how |-> "created",
     cleanup |-> NoCleanup(convs)]

\* MemoryService.get_or_create_conversation: the dict it leaves, how it got the
\* context (found, loaded, created) and what the cleanup did
GetOrCreateConversation(convs, fs, cfg, id, now) ==
    IF IndexOf(convs, id) # 0
    THEN [convs |-> convs, how |-> "found", cleanup |-> NoCleanup(convs)]
    ELSE LET loaded == LoadFromFile(fs, cfg, id)
         IN  IF loaded # None
             THEN [convs |-> PutConv(convs, Get(loaded)), how |-> "loaded",
                   cleanup |-> NoCleanup(convs)]
             ELSE LET cl == Cleanup(PutConv(convs, ConversationContext(id, now)), now, cfg)
                  IN  [convs |-> cl.convs, how |-> "created", cleanup |-> cl]

\* MemoryService.get_conversation
GetConversation(convs, fs, cfg, id) ==
    IF IndexOf(convs, id) # 0
    THEN [convs |-> convs, how |-> "found"]
    ELSE LET loaded == LoadFromFile(fs, cfg, id)
         IN  IF loaded # None
             THEN [convs |-> PutConv(convs, Get(loaded)), how |-> "loaded"]
             ELSE [convs |-> convs, how |-> "none"]

\* list[-n:] (the whole list for n = 0: -0 is 0)
LastN(list, n) ==
    IF n > 0 /\ Len(list) > n THEN SubSeq(list, Len(list) - n + 1, Len(list)) ELSE list

\* save_conversation without its ceiling on the messages
SaveConversationNoTrim(convs, fs, cfg, ctx) ==
    [convs |-> PutConv(convs, ctx), files |-> SaveToFile(fs, cfg, ctx)]

\* MemoryService.save_conversation: the dict and the files it leaves
SaveConversation(convs, fs, cfg, ctx) ==
    LET trimmed == [ctx EXCEPT !.messages = LastN(ctx.messages, cfg.max_messages)]
    IN  [convs |-> PutConv(convs, trimmed), files |-> SaveToFile(fs, cfg, trimmed)]

\* what the last call did: how it got its context ("found", "loaded",
\* "created", or "none"), whether the cleanup found the count above the
\* ceiling, the ids the cleanup logged as expired and as old, whether the
\* call found what it was asked for, the id of a delete_conversation, the id
\* of an add_assistant_response, and what a build_context_for_llm returned
NoMemOp ==
    [how |-> "none", over |-> FALSE, expired |-> <<>>, old |-> <<>>, ret |-> FALSE,
     deleted |-> "", answered |-> "", llm_context |-> None]

InitMem ==
    /\ conversations = <<>>
    /\ files = [id \in ConvIds |-> None]
    /\ memCfg \in MemConfigs
    /\ memOp = NoMemOp

IdleMem ==
    /\ conversations = <<>>
    /\ files = [id \in ConvIds |-> None]
    /\ memCfg = [max_conversations |-> 1, ttl_hours |-> 1, max_messages |-> 1,
                 persistence |-> FALSE]
    /\ memOp = NoMemOp

\* get_or_create_conversation(id)
MemGetOrCreate(id) ==
    LET g == GetOrCreateConversation(conversations, files, memCfg, id, utcnow)
    IN  /\ conversations' = g.convs
        /\ memOp' = [NoMemOp EXCEPT !.how = g.how, !.over = g.cleanup.over,
                                    !.expired = g.cleanup.expired,
                                    !.old = g.cleanup.old, !.ret = TRUE]
        /\ UNCHANGED <<files, memCfg, exceptMem, clockVars>>

\* get_conversation(id)
MemGetConversation(id) ==
    LET g == GetConversation(conversations, files, memCfg, id)
    IN  /\ conversations' = g.convs
        /\ memOp' = [NoMemOp EXCEPT !.how = g.how,
                                    !.ret = (g.how # "none")]
        /\ UNCHANGED <<files, memCfg, exceptMem, clockVars>>

\* save_conversation(context) for a context the service holds
MemSave(id) ==
    /\ IndexOf(conversations, id) # 0
    /\ LET sv == SaveConversation(conversations, files, memCfg,
                                  conversations[IndexOf(conversations, id)])
       IN  /\ conversations' = sv.convs
           /\ files' = sv.files
    /\ memOp' = [NoMemOp EXCEPT !.how = "found", !.ret = TRUE]
    /\ UNCHANGED <<memCfg, exceptMem, clockVars>>

\* delete_conversation(id)
MemDelete(id) ==
    /\ IF IndexOf(conversations, id) # 0
       THEN /\ conversations' = DelConvs(conversations, {id})
            /\ files' = IF memCfg.persistence THEN [files EXCEPT ![id] = None] ELSE files
            /\ memOp' = [NoMemOp EXCEPT !.how = "found", !.ret = TRUE, !.deleted = id]
       ELSE /\ UNCHANGED <<conversations, files>>
            /\ memOp' = [NoMemOp EXCEPT !.deleted = id]
    /\ UNCHANGED <<memCfg, exceptMem, clockVars>>

\* if new_investors: context.add_investors(new_investors), and the like
MergeInvestors(ctx, investors, now) ==
    IF investors # <<>> THEN AddInvestors(ctx, investors, now) ELSE ctx
MergeSearchResults(ctx, results, now) ==
    IF results # <<>> THEN AddSearchResults(ctx, results, now) ELSE ctx
MergeSectors(ctx, sectors, now) ==
    IF sectors # <<>> THEN AddSectors(ctx, sectors, now) ELSE ctx

\* the new data merged and the user message forgotten
MergeTurnDataNoMessage(ctx, new_message, data, now) ==
    MergeSectors(
        MergeSearchResults(MergeInvestors(ctx, data.investors, now),
                           data.search_results, now),
        data.sectors, now)

\* the new data of a turn merged into its context, then the user message added
MergeTurnData(ctx, new_message, data, now) ==
    AddMessage(
        MergeSectors(
            MergeSearchResults(MergeInvestors(ctx, data.investors, now),
                               data.search_results, now),
            data.sectors, now),
        "user", new_message, now)

\* what a call that got its context through g did
OpOf(g) ==
    [NoMemOp EXCEPT !.how = g.how, !.over = g.cleanup.over,
                    !.expired = g.cleanup.expired, !.old = g.cleanup.old, !.ret = TRUE]

\* build_context_for_llm once get_or_create_conversation has given g
BuildContextOn(g, fs, cfg, id, new_message, data, now) ==
    SaveConversation(g.convs, fs, cfg,
                     MergeTurnData(g.convs[IndexOf(g.convs, id)], new_message, data, now))
        @@ [op |-> OpOf(g)]

\* build_context_for_llm: the dict and the files it leaves, and what the call
\* did (how it got the context, what the cleanup logged)
BuildContextForLlm(convs, fs, cfg, id, new_message, data, now) ==
    BuildContextOn(GetOrCreateConversation(convs, fs, cfg, id, now),
                   fs, cfg, id, new_message, data, now)

\* add_assistant_response once get_conversation has given g
AddAssistantResponseOn(g, convs, fs, cfg, id, response, now) ==
    IF g.how = "none"
    THEN [convs |-> convs, files |-> fs, op |-> [NoMemOp EXCEPT !.answered = id]]
    ELSE SaveConversation(g.convs, fs, cfg,
                          AddMessage(g.convs[IndexOf(g.convs, id)], "assistant",
                                     response, now))
            @@ [op |-> [NoMemOp EXCEPT !.how = g.how, !.ret = TRUE, !.answered = id]]

\* add_assistant_response: the dict and the files it leaves, and what the call did
AddAssistantResponse(convs, fs, cfg, id, response, now) ==
    AddAssistantResponseOn(GetConversation(convs, fs, cfg, id),
                           convs, fs, cfg, id, response, now)

\* build_context_for_llm(id, new_message, new_investors, new_search_results, new_sectors)
MemBuildContext(id, new_message, data) ==
    LET b == BuildContextForLlm(conversations, files, memCfg, id, new_message, data, utcnow)
    IN  /\ conversations' = b.convs
        /\ files' = b.files
        /\ memOp' = b.op
        /\ UNCHANGED <<memCfg, exceptMem, clockVars>>

\* add_assistant_response(id, response)
MemAddAssistantResponse(id, response) ==
    LET a == AddAssistantResponse(conversations, files, memCfg, id, response, utcnow)
    IN  /\ conversations' = a.convs
        /\ files' = a.files
        /\ memOp' = a.op
        /\ UNCHANGED <<memCfg, exceptMem, clockVars>>

\* datetime.utcnow() moves on between the service's calls
MemTick ==
    /\ utcnow < MaxNow
    /\ utcnow' = utcnow + 1
    /\ memOp' = NoMemOp
    /\ UNCHANGED <<conversations, files, memCfg, exceptMem, clock>>

\* the service's calls, on the conversations ids and with the turn data datas
NextMemOn(ids, datas) ==
    \/ \E id \in ids : MemGetOrCreate(id)
    \/ \E id \in ids : MemGetConversation(id)
    \/ \E id \in ids : MemSave(id)
    \/ \E id \in ids : MemDelete(id)
    \/ \E id \in ids, data \in datas : MemBuildContext(id, M_hi, data)
    \/ \E id \in ids : MemAddAssistantResponse(id, M_ok)
    \/ MemTick

\* eviction: every conversation id, turns that bring no new search data
NextMem == NextMemOn(ConvIds, {NoTurnData})

\* C6: after any sequence of MemoryService operations, with or without file
\* persistence, the number of contexts held in memory never exceeds
\* max_conversations.
C6_CountWithinCeiling == Len(conversations) <= memCfg.max_conversations

\* C7: when creating a context brings the count above the ceiling, the cleanup
\* first removes every context whose updated_at is older than the TTL cutoff;
\* only if the count is still above the ceiling does it remove more, and then
\* exactly (count - ceiling) of them in ascending updated_at order, so that no
\* survivor is older-updated than a context removed in that second step. A
\* creation that leaves the count within the ceiling removes nothing, and the
\* created context itself is in memory afterwards.
C7_EvictionOrder ==
    [][memOp'.how = "created" =>
        /\ IdsOf(conversations') \ IdsOf(conversations) # {}
        /\ LET
                new == CHOOSE id \in IdsOf(conversations') \ IdsOf(conversations) : TRUE
                all == IdsOf(conversations) \cup {new}
                upd(id) == IF id = new THEN utcnow
                           ELSE conversations[IndexOf(conversations, id)].updated_at
                cutoff == utcnow - memCfg.ttl_hours
                expiredIds == {id \in all : upd(id) < cutoff}
                rest == all \ expiredIds
                old == memOp'.old
                survivors == IdsOf(conversations')
            IN  IF Cardinality(all) <= memCfg.max_conversations
                THEN ~memOp'.over /\ memOp'.expired = <<>> /\ old = <<>> /\ survivors = all
                ELSE /\ memOp'.over
                     /\ Range(memOp'.expired) = expiredIds
                     /\ IF Cardinality(rest) <= memCfg.max_conversations
                        THEN old = <<>> /\ survivors = rest
                        ELSE /\ Len(old) = Cardinality(rest) - memCfg.max_conversations
                             /\ Cardinality(Range(old)) = Len(old)
                             /\ Range(old) \subseteq rest
                             /\ survivors = rest \ Range(old)
                             /\ \A i, j \in 1..Len(old) : i < j => upd(old[i]) <= upd(old[j])
                             /\ \A e \in Range(old), sv \in survivors : ~(upd(sv) < upd(e))
    ]_vars

\* a creation whose cleanup removed an expired context and then, still above
\* the ceiling, an old one
C7_Witness ==
    /\ memOp.how = "created" /\ memOp.over
    /\ memOp.expired # <<>>
    /\ memOp.old # <<>>

\* a context's updated_at is older than the TTL cutoff
Expired(ctx) == ctx.updated_at < utcnow - memCfg.ttl_hours

\* C8: after a get_or_create_conversation that creates a context, no
\* context idle for longer than the TTL remains in memory, whether or not the
\* count exceeds the ceiling.
C8_ExpiredEvictedOnEveryCreate ==
    memOp.how = "created" => \A i \in 1..Len(conversations) : ~Expired(conversations[i])

\* C20: delete_conversation(id) returns True exactly when a conversation for
\* id existed, in memory or, with persistence configured, in its file (so that
\* get_conversation(id) would have found it), and after it returns
\* get_conversation(id) reports the conversation as not found.
C20_DeleteRemoves ==
    [][memOp'.deleted # "" =>
        /\ memOp'.ret <=>
                GetConversation(conversations, files, memCfg, memOp'.deleted).how # "none"
        /\ GetConversation(conversations', files', memCfg', memOp'.deleted).how = "none"
    ]_vars

\* what the cleanup does guarantee: after a get_or_create_conversation that
\* creates a context and thereby brings the count above the ceiling, no context
\* idle for longer than the TTL remains in memory.
C8_ExpiredEvictedWhenOverCeiling ==
    (memOp.how = "created" /\ memOp.over) =>
        \A i \in 1..Len(conversations) : ~Expired(conversations[i])

\* a creation above the ceiling whose cleanup removed two expired contexts
C8_Witness ==
    /\ memOp.how = "created" /\ memOp.over
    /\ Len(memOp.expired) = 2

----------------------------------------------------------------------------
(* MemoryService: what a turn reads back from its conversation *)

\* the conversation ids, the configurations and the turn data of the turns:
\* a ceiling of two messages, one conversation with files or two without
TurnConvIds == {"c1", "c2"}
TurnMemConfigs ==
    {[max_conversations |-> 1, ttl_hours |-> 1, max_messages |-> 2, persistence |-> TRUE],
     [max_conversations |-> 2, ttl_hours |-> 1, max_messages |-> 2, persistence |-> FALSE]}

\* search_results[-20:]
SEARCH_RESULTS_WINDOW == 20

\* one search result more than the window holds
ManyResultsData ==
    [investors |-> <<InvestorProfile(S_Bo)>>,
     search_results |-> [i \in 1..(SEARCH_RESULTS_WINDOW + 1) |-> SearchResult(<<i>>)],
     sectors |-> <<S_AL>>]
TurnDatas == {NoTurnData, FoundTurnData, ManyResultsData}

\* the max_history arguments of the calls
HistoryLimits == {0, 1, 20}

\* ConversationContext.get_message_history: "if limit:" is false for 0 as it
\* is for None
GetMessageHistory(messages, limit) ==
    IF limit # 0 THEN LastN(messages, limit) ELSE messages

\* ConversationContext.get_summary (the two timestamps left out)
GetSummary(ctx) ==
    [message_count |-> Len(ctx.messages),
     investors_found |-> Len(ctx.investors),
     search_results_count |-> Len(ctx.search_results),
     sectors_discussed |-> ctx.sectors_discussed]

\* the dict build_context_for_llm returns for the context it has saved
LlmContext(ctx, max_history) ==
    [messages |-> GetMessageHistory(ctx.messages, max_history),
     investors |-> ctx.investors,
     search_results |-> LastN(ctx.search_results, SEARCH_RESULTS_WINDOW),
     sectors_discussed |-> ctx.sectors_discussed,
     conversation_summary |-> GetSummary(ctx)]

\* what a build_context_for_llm that left b did and returned
BuiltOp(b, id, max_history) ==
    [b.op EXCEPT !.llm_context =
        Some([conversation_id |-> id, max_history |-> max_history,
              returned |-> LlmContext(b.convs[IndexOf(b.convs, id)], max_history)])]

\* build_context_for_llm(id, new_message, new_investors, new_search_results,
\* new_sectors, max_history), with what it returns
MemBuildContextN(id, new_message, data, max_history) ==
    LET b == BuildContextForLlm(conversations, files, memCfg, id, new_message, data, utcnow)
    IN  /\ conversations' = b.convs
        /\ files' = b.files
        /\ memOp' = BuiltOp(b, id, max_history)
        /\ UNCHANGED <<memCfg, exceptMem, clockVars>>

InitTurnMem ==
    /\ conversations = <<>>
    /\ files = [id \in ConvIds |-> None]
    /\ memCfg \in TurnMemConfigs
    /\ memOp = NoMemOp

\* the calls of the turns of a conversation, and delete_conversation
NextTurnMem ==
    \/ \E id \in TurnConvIds, data \in TurnDatas, n \in HistoryLimits :
            MemBuildContextN(id, M_hi, data, n)
    \/ \E id \in TurnConvIds : MemAddAssistantResponse(id, M_ok)
    \/ \E id \in TurnConvIds : MemDelete(id)

\* the context add_assistant_response(id, ...) gets from get_conversation
HeldContext(convs, fs, cfg, id) ==
    IF IndexOf(convs, id) # 0 THEN Some(convs[IndexOf(convs, id)])
    ELSE LoadFromFile(fs, cfg, id)

AssistantMessage(response) == [role |-> "assistant", content |-> response]

\* the lists of a context that add_assistant_response leaves alone
SameLists(ctxA, ctxB) ==
    /\ ctxA.investors = ctxB.investors
    /\ ctxA.search_results = ctxB.search_results
    /\ ctxA.sectors_discussed = ctxB.sectors_discussed

\* an add_assistant_response(id, M_ok) step on a context that exists leaves
\* the other conversations alone and the lists of its own
AnsweredFrame(id) ==
    /\ IndexOf(conversations', id) # 0
    /\ SameLists(conversations'[IndexOf(conversations', id)],
                 Get(HeldContext(conversations, files, memCfg, id)))
    /\ DelConvs(conversations', {id}) = DelConvs(conversations, {id})
    /\ \A other \in ConvIds \ {id} : files'[other] = files[other]

BuiltContext == conversations[IndexOf(conversations, Get(memOp.llm_context).conversation_id)]

\* the last n elements of a list, none for n = 0
Last(list, n) == SubSeq(list, Len(list) - Min(n, Len(list)) + 1, Len(list))

\* C22: build_context_for_llm(id, msg, ..., max_history=N) returns, for every
\* N >= 0, the last min(N, message count) messages with the user message just
\* added last, the full investor list, the last min(20, count) search
\* results, the full sector list, and a summary whose counts are the lengths
\* of the stored lists.
C22_ReturnsLastN ==
    memOp.llm_context # None =>
        LET r == Get(memOp.llm_context).returned
            n == Get(memOp.llm_context).max_history
        IN  /\ r.messages = Last(BuiltContext.messages, n)
            /\ n > 0 => r.messages[Len(r.messages)] = [role |-> "user", content |-> M_hi]
            /\ r.investors = BuiltContext.investors
            /\ r.search_results = Last(BuiltContext.search_results, SEARCH_RESULTS_WINDOW)
            /\ r.sectors_discussed = BuiltContext.sectors_discussed
            /\ r.conversation_summary.message_count = Len(BuiltContext.messages)
            /\ r.conversation_summary.investors_found = Len(BuiltContext.investors)
            /\ r.conversation_summary.search_results_count = Len(BuiltContext.search_results)

----------------------------------------------------------------------------
(* Provider registry: Registry, get_llm, get_search, get_scraper *)

\* how many factory coroutines are alive at once
MaxCalls == 2

Kinds == {"llm", "search", "scraper"}

P_g == <<103>>          \* "g"
P_G == <<71>>           \* "G"
P_h == <<104>>          \* "h"
L_m == <<109>>          \* "m"
L_n == <<110>>          \* "n"
COLON == <<58>>         \* ":"

ProviderNames == {P_g, P_G}
\* the names of the resolutions that fail: two different names
ResolveNames == {P_g, P_h}
ModelNames == {L_m, L_n}

\* provider classes: what the registry looks at is whether instances have an
\* initialize and a cleanup hook (the bundled llm and scraper classes have both,
\* the bundled search class has neither)
ClassWithInitialize ==
    [cls |-> "WithInitialize", has_initialize |-> TRUE, has_cleanup |-> TRUE]
ClassPlain == [cls |-> "Plain", has_initialize |-> FALSE, has_cleanup |-> FALSE]
Classes == {ClassWithInitialize, ClassPlain}

\* the keys the two dicts of a kind can hold
ClassKeys == {Lower(n) : n \in ProviderNames \cup ResolveNames}
InstanceKeys ==
    ClassKeys \cup {Lower(n \o COLON \o m) : n \in ProviderNames \cup ResolveNames,
                                                m \in ModelNames}

CallIds == 1..MaxCalls

\* Registry.__init__: no class registered, no instance cached
EmptyProviders == [k \in Kinds |-> [n \in ClassKeys |-> None]]
EmptyInstances == [k \in Kinds |-> [n \in InstanceKeys |-> None]]

\* Registry.register: self._providers[provider_type][name.lower()] = cls
Register(provs, provider_type, name, cls) ==
    [provs EXCEPT ![provider_type][Lower(name)] = Some(cls)]

\* Registry.get_class: the class registered under name.lower(), or None
GetClass(provs, provider_type, name) == provs[provider_type][Lower(name)]

\* Registry.get_instance: the instance cached under name.lower(), or None
GetInstance(insts, provider_type, name) == insts[provider_type][Lower(name)]

\* Registry.set_instance: self._instances[provider_type][name.lower()] = instance
SetInstance(insts, provider_type, name, instance) ==
    [insts EXCEPT ![provider_type][Lower(name)] = Some(instance)]

\* cls(config) / cls(**kwargs): a new object; its identity is its index in objects
NewObject(kind, key, cls, use_cache) ==
    [kind |-> kind, key |-> key, cls |-> cls, cache |-> use_cache, initialize_calls |-> 0,
     cleanup_calls |-> 0]

\* instance.initialize() is called on object i
CallInitialize(objs, i) == [objs EXCEPT ![i].initialize_calls = @ + 1]

\* list_providers of every kind at once
ListProvidersAllKinds(provs, provider_type) ==
    {n \in ClassKeys : \E k \in Kinds : provs[k][n] # None}

\* Registry.list_providers: the keys of the kind's dict (as a set: the order of
\* the list is the order of registration)
ListProviders(provs, provider_type) == {n \in ClassKeys : provs[provider_type][n] # None}

\* coroutines are numbered in the order they are started
IsNextCall(c) ==
    /\ calls[c].pc = "idle"
    /\ \A d \in CallIds : d < c => calls[d].pc # "idle"

\* a coroutine not started yet (available: the names in the message of the
\* ConfigurationError it raised)
NoCall ==
    [fn |-> "none", name |-> <<>>, key |-> <<>>, cache |-> FALSE,
     pc |-> "idle", instance |-> 0, ret |-> 0, available |-> {}]

\* the order in which cleanup_all walks the kinds: the keys of _instances
KindOrder == <<"llm", "search", "scraper">>

\* cleanup_all not called yet
NoSweep ==
    [pc |-> "idle", kind |-> 1, visited |-> {}, swept |-> <<>>, logged |-> {},
     cached |-> {}]

InitReg ==
    /\ providers = EmptyProviders
    /\ instances = EmptyInstances
    /\ objects = <<>>
    /\ calls = [c \in CallIds |-> NoCall]
    /\ sweep = NoSweep

IdleReg == InitReg

\* @register(provider_type, name) on a class
RegRegister(provider_type, name, cls) ==
    /\ providers' = Register(providers, provider_type, name, cls)
    /\ providers' # providers
    /\ UNCHANGED <<instances, objects, calls, sweep, exceptReg, clockVars>>

\* get_llm up to its first suspension: the cache check, the class lookup, the
\* construction and the call of initialize(); the hook either runs to its end
\* at once or suspends the coroutine at the await
GetLlm(c, name, model_name, use_cache) ==
    LET cache_key == name \o COLON \o model_name
        cached == GetInstance(instances, "llm", cache_key)
        cls == GetClass(providers, "llm", name)
        me == [NoCall EXCEPT !.fn = "get_llm", !.name = name, !.key = cache_key,
                             !.cache = use_cache]
        i == Len(objects) + 1
        made == Append(objects, NewObject("llm", cache_key, Get(cls), use_cache))
    IN  /\ IsNextCall(c)
        /\ IF use_cache /\ cached # None
           THEN /\ calls' = [calls EXCEPT ![c] =
                        [me EXCEPT !.pc = "returned", !.ret = Get(cached)]]
                /\ UNCHANGED <<instances, objects>>
           ELSE IF cls = None
           THEN /\ calls' = [calls EXCEPT ![c] =
                        [me EXCEPT !.pc = "raised",
                                   !.available = ListProviders(providers, "llm")]]
                /\ UNCHANGED <<instances, objects>>
           ELSE IF Get(cls).has_initialize
           THEN /\ objects' = CallInitialize(made, i)
                /\ \E suspends \in BOOLEAN :
                    IF suspends
                    THEN /\ calls' = [calls EXCEPT ![c] =
                                [me EXCEPT !.pc = "await_initialize", !.instance = i]]
                         /\ UNCHANGED instances
                    ELSE /\ instances' = IF use_cache
                                THEN SetInstance(instances, "llm", cache_key, i)
                                ELSE instances
                         /\ calls' = [calls EXCEPT ![c] =
                                [me EXCEPT !.pc = "returned", !.instance = i, !.ret = i]]
           ELSE /\ objects' = made
                /\ instances' = IF use_cache
                       THEN SetInstance(instances, "llm", cache_key, i)
                       ELSE instances
                /\ calls' = [calls EXCEPT ![c] =
                       [me EXCEPT !.pc = "returned", !.instance = i, !.ret = i]]
        /\ UNCHANGED <<providers, sweep, exceptReg, clockVars>>

\* get_llm after the awaited initialize(): set_instance and return
GetLlmResume(c) ==
    /\ calls[c].fn = "get_llm" /\ calls[c].pc = "await_initialize"
    /\ instances' = IF calls[c].cache
           THEN SetInstance(instances, "llm", calls[c].key, calls[c].instance)
           ELSE instances
    /\ calls' = [calls EXCEPT ![c].pc = "returned", ![c].ret = calls[c].instance]
    /\ UNCHANGED <<providers, objects, sweep, exceptReg, clockVars>>

\* get_search: no await in its body, so the whole call is one step; it never
\* looks for an initialize hook
GetSearch(c, name, use_cache) ==
    LET cached == GetInstance(instances, "search", name)
        cls == GetClass(providers, "search", name)
        me == [NoCall EXCEPT !.fn = "get_search", !.name = name, !.key = name,
                             !.cache = use_cache]
        i == Len(objects) + 1
    IN  /\ IsNextCall(c)
        /\ IF use_cache /\ cached # None
           THEN /\ calls' = [calls EXCEPT ![c] =
                        [me EXCEPT !.pc = "returned", !.ret = Get(cached)]]
                /\ UNCHANGED <<instances, objects>>
           ELSE IF cls = None
           THEN /\ calls' = [calls EXCEPT ![c] =
                        [me EXCEPT !.pc = "raised",
                                   !.available = ListProviders(providers, "search")]]
                /\ UNCHANGED <<instances, objects>>
           ELSE /\ objects' = Append(objects, NewObject("search", name, Get(cls), use_cache))
                /\ instances' = IF use_cache
                       THEN SetInstance(instances, "search", name, i)
                       ELSE instances
                /\ calls' = [calls EXCEPT ![c] =
                       [me EXCEPT !.pc = "returned", !.instance = i, !.ret = i]]
        /\ UNCHANGED <<providers, sweep, exceptReg, clockVars>>

\* get_scraper up to its first suspension (as get_llm, keyed by the name)
GetScraper(c, name, use_cache) ==
    LET cached == GetInstance(instances, "scraper", name)
        cls == GetClass(providers, "scraper", name)
        me == [NoCall EXCEPT !.fn = "get_scraper", !.name = name, !.key = name,
                             !.cache = use_cache]
        i == Len(objects) + 1
        made == Append(objects, NewObject("scraper", name, Get(cls), use_cache))
    IN  /\ IsNextCall(c)
        /\ IF use_cache /\ cached # None
           THEN /\ calls' = [calls EXCEPT ![c] =
                        [me EXCEPT !.pc = "returned", !.ret = Get(cached)]]
                /\ UNCHANGED <<instances, objects>>
           ELSE IF cls = None
           THEN /\ calls' = [calls EXCEPT ![c] =
                        [me EXCEPT !.pc = "raised",
                                   !.available = ListProviders(providers, "scraper")]]
                /\ UNCHANGED <<instances, objects>>
           ELSE IF Get(cls).has_initialize
           THEN /\ objects' = CallInitialize(made, i)
                /\ \E suspends \in BOOLEAN :
                    IF suspends
                    THEN /\ calls' = [calls EXCEPT ![c] =
                                [me EXCEPT !.pc = "await_initialize", !.instance = i]]
                         /\ UNCHANGED instances
                    ELSE /\ instances' = IF use_cache
                                THEN SetInstance(instances, "scraper", name, i)
                                ELSE instances
                         /\ calls' = [calls EXCEPT ![c] =
                                [me EXCEPT !.pc = "returned", !.instance = i, !.ret = i]]
           ELSE /\ objects' = made
                /\ instances' = IF use_cache
                       THEN SetInstance(instances, "scraper", name, i)
                       ELSE instances
                /\ calls' = [calls EXCEPT ![c] =
                       [me EXCEPT !.pc = "returned", !.instance = i, !.ret = i]]
        /\ UNCHANGED <<providers, sweep, exceptReg, clockVars>>

\* get_scraper after the awaited initialize(): set_instance and return
GetScraperResume(c) ==
    /\ calls[c].fn = "get_scraper" /\ calls[c].pc = "await_initialize"
    /\ instances' = IF calls[c].cache
           THEN SetInstance(instances, "scraper", calls[c].key, calls[c].instance)
           ELSE instances
    /\ calls' = [calls EXCEPT ![c].pc = "returned", ![c].ret = calls[c].instance]
    /\ UNCHANGED <<providers, objects, sweep, exceptReg, clockVars>>

\* the keys of one kind's dict that hold an instance
CachedKeys(insts, kind) == {k \in InstanceKeys : insts[kind][k] # None}

\* the instances the cache holds, of every kind
CachedObjects(insts) ==
    UNION {{Get(insts[kind][k]) : k \in CachedKeys(insts, kind)} : kind \in Kinds}

\* the loop body of cleanup_all without its try / except: a raising hook ends
\* the sweep
CleanupInstanceNoTry(sw, objs, kind, key, raises) ==
    LET i == Get(instances[kind][key])
        seen == [sw EXCEPT !.visited = @ \cup {key}, !.swept = Append(@, <<kind, key>>)]
    IN  IF objs[i].cls.has_cleanup
        THEN [objects |-> [objs EXCEPT ![i].cleanup_calls = @ + 1],
              sweep |-> IF raises THEN [seen EXCEPT !.pc = "raised"] ELSE seen]
        ELSE [objects |-> objs, sweep |-> seen]

\* the loop body of cleanup_all on one cached instance: if it has a cleanup
\* hook the hook is awaited; an Exception it raises is logged and swallowed
CleanupInstance(sw, objs, kind, key, raises) ==
    LET i == Get(instances[kind][key])
        seen == [sw EXCEPT !.visited = @ \cup {key}, !.swept = Append(@, <<kind, key>>)]
    IN  IF objs[i].cls.has_cleanup
        THEN [objects |-> [objs EXCEPT ![i].cleanup_calls = @ + 1],
              sweep |-> IF raises THEN [seen EXCEPT !.logged = @ \cup {<<kind, key>>}]
                        ELSE seen]
        ELSE [objects |-> objs, sweep |-> seen]

\* Registry.cleanup_all is called: the lifespan handler awaits it at shutdown,
\* when no factory coroutine is running any more
CleanupAllStart ==
    /\ sweep.pc = "idle"
    /\ \A c \in CallIds : calls[c].pc \in {"returned", "raised"}
    /\ sweep' = [NoSweep EXCEPT !.pc = "sweeping", !.cached = CachedObjects(instances)]
    /\ UNCHANGED <<providers, instances, objects, calls, exceptReg, clockVars>>

\* Registry.cleanup_all, one step of its loops: the next instance of the kind
\* at hand (a dict is walked in insertion order, whichever that was), or the
\* next kind, or, after the last kind, the reset of _instances and the return
CleanupAllStep ==
    /\ sweep.pc = "sweeping"
    /\ LET kind == KindOrder[sweep.kind]
           todo == CachedKeys(instances, kind) \ sweep.visited
       IN  IF todo # {}
           THEN /\ \E key \in todo, raises \in BOOLEAN :
                    LET r == CleanupInstance(sweep, objects, kind, key, raises)
                    IN  sweep' = r.sweep /\ objects' = r.objects
                /\ UNCHANGED instances
           ELSE IF sweep.kind < Len(KindOrder)
           THEN /\ sweep' = [sweep EXCEPT !.kind = @ + 1, !.visited = {}]
                /\ UNCHANGED <<instances, objects>>
           ELSE /\ instances' = EmptyInstances
                /\ sweep' = [sweep EXCEPT !.pc = "returned"]
                /\ UNCHANGED objects
    /\ UNCHANGED <<providers, calls, exceptReg, clockVars>>

NextReg ==
    \/ \E k \in Kinds, n \in ProviderNames, cls \in Classes : RegRegister(k, n, cls)
    \/ \E c \in CallIds, n \in ProviderNames, m \in ModelNames, use_cache \in BOOLEAN :
            GetLlm(c, n, m, use_cache)
    \/ \E c \in CallIds : GetLlmResume(c)
    \/ \E c \in CallIds, n \in ProviderNames, use_cache \in BOOLEAN : GetSearch(c, n, use_cache)
    \/ \E c \in CallIds, n \in ProviderNames, use_cache \in BOOLEAN : GetScraper(c, n, use_cache)
    \/ \E c \in CallIds : GetScraperResume(c)
    \/ CleanupAllStart
    \/ CleanupAllStep

\* the calls that asked for the cached instance of a kind under a name (and model)
SameRequest(c1, c2) ==
    /\ calls[c1].fn # "none" /\ calls[c1].fn = calls[c2].fn
    /\ calls[c1].key = calls[c2].key
    /\ calls[c1].cache /\ calls[c2].cache

\* C9: with cache=True, all get_llm calls with the same provider name and model
\* return the same instance and at most one instance is ever constructed for
\* that key, under every interleaving; likewise get_search and get_scraper per
\* name.
C9_Singleton ==
    /\ \A c1, c2 \in CallIds :
        (SameRequest(c1, c2) /\ calls[c1].pc = "returned" /\ calls[c2].pc = "returned")
            => calls[c1].ret = calls[c2].ret
    /\ \A i, j \in 1..Len(objects) :
        (/\ objects[i].cache /\ objects[j].cache
         /\ objects[i].kind = objects[j].kind
         /\ objects[i].key = objects[j].key) => i = j

\* C10: for every provider kind, an instance whose class exposes an initialize
\* hook has had the hook invoked exactly once when a call returns it, whether
\* the call constructed it or found it cached.
C10_InitializedOnceBeforeReturn ==
    \A c \in CallIds :
        (calls[c].pc = "returned" /\ objects[calls[c].ret].cls.has_initialize)
            => objects[calls[c].ret].initialize_calls = 1

\* C11: cleanup_all invokes the cleanup hook of every cached instance that has
\* one exactly once, also when the hook of another instance raises; it never
\* ends with the exception of a hook; when it returns the instance cache of
\* every kind is empty; and none of its steps changes the registered classes.
C11_CleanupAll ==
    /\ [](/\ sweep.pc # "raised"
          /\ \A i \in 1..Len(objects) : objects[i].cleanup_calls <= 1
          /\ sweep.pc = "returned" =>
                /\ instances = EmptyInstances
                /\ \A i \in 1..Len(objects) :
                     objects[i].cleanup_calls =
                        IF i \in sweep.cached /\ objects[i].cls.has_cleanup THEN 1 ELSE 0)
    /\ [][sweep' # sweep => providers' = providers]_vars

\* cleanup_all has returned after the hook of the first of two cached instances
\* raised and the hook of the second was still invoked
C11_Witness ==
    /\ sweep.pc = "returned"
    /\ Len(sweep.swept) = 2
    /\ sweep.swept[1] \in sweep.logged
    /\ \A i \in sweep.cached : objects[i].cleanup_calls = 1
    /\ Cardinality(sweep.cached) = 2


\* the calls that fail: names that may not be registered, the default model,
\* classes without hooks
NextResolve ==
    \/ \E k \in Kinds, n \in ResolveNames : RegRegister(k, n, ClassPlain)
    \/ \E c \in CallIds, n \in ResolveNames, use_cache \in BOOLEAN : GetLlm(c, n, L_m, use_cache)
    \/ \E c \in CallIds, n \in ResolveNames, use_cache \in BOOLEAN : GetSearch(c, n, use_cache)
    \/ \E c \in CallIds, n \in ResolveNames, use_cache \in BOOLEAN : GetScraper(c, n, use_cache)

\* the kind a factory resolves
KindOf(fn) ==
    IF fn = "get_llm" THEN "llm" ELSE IF fn = "get_search" THEN "search" ELSE "scraper"

\* C24: a get_llm, get_search or get_scraper call for a name with no cached
\* instance and no registered class fails with a not-found error whose message
\* lists exactly the names registered for that kind at that moment, none that
\* is registered under another kind only, and it neither constructs nor caches
\* an instance.
C24_NotFoundListsKind ==
    [][\A c \in CallIds :
        (calls[c].pc # "raised" /\ calls'[c].pc = "raised") =>
            /\ GetClass(providers, KindOf(calls'[c].fn), calls'[c].name) = None
            /\ calls'[c].available =
                    {Lower(n) : n \in {m \in ResolveNames :
                        GetClass(providers, KindOf(calls'[c].fn), m) # None}}
            /\ instances' = instances
            /\ objects' = objects
    ]_vars

\* a get_search call has failed with a message that lists the one name
\* registered for search, while another name is registered for llm only
C24_Witness ==
    \E c \in CallIds :
        /\ calls[c].fn = "get_search" /\ calls[c].pc = "raised"
        /\ calls[c].name = P_h
        /\ calls[c].available = {P_g}
        /\ providers["llm"][P_h] # None
        /\ providers["search"][P_h] = None


\* C25: once register has replaced the class under a (kind, name), every
\* later resolution with cache=True yields an instance of the class registered
\* now, never one of the replaced class, also when an instance of the replaced
\* class had been cached before: a caching call that starts and returns finds
\* an instance of the class get_class gives at that moment.
C25_ResolvesToRegistered ==
    [][\A c \in CallIds :
        (calls[c].pc = "idle" /\ calls'[c].pc = "returned" /\ calls'[c].cache) =>
            Some(objects'[calls'[c].ret].cls) =
                GetClass(providers, KindOf(calls'[c].fn), calls'[c].name)
    ]_vars

----------------------------------------------------------------------------
(* InvestorService.find_investors: cache, retries with backoff, processing *)

\* how many find_investors calls one run makes
MaxFindCalls == 2

\* Settings.search_max_retries (default 2)
RetriesChoices == {0, 1, 2}

UNITED_STATES == <<85, 110, 105, 116, 101, 100, 32, 83, 116, 97, 116, 101, 115>>
    \* "United States"
COMPANY_URL == <<108, 105, 110, 107, 101, 100, 105, 110, 46, 99, 111, 109, 47, 99, 111, 109, 112, 97, 110, 121, 47>>
    \* "linkedin.com/company/"
TITLE_SEP == <<32, 124, 32>>    \* " | "
T_Al_VC == <<65, 108, 32, 124, 32, 86, 67>>    \* "Al | VC"

\* the first index at which sub occurs in s, 0 if it does not
IndexOfSub(sub, s) ==
    LET at == {i \in 1..(Len(s) - Len(sub) + 1) : SubSeq(s, i, i + Len(sub) - 1) = sub}
    IN  IF at = {} THEN 0 ELSE CHOOSE i \in at : \A j \in at : i <= j

\* title.split(" | ")[0] if " | " in title else title
BeforeSep(sep, title) ==
    IF IndexOfSub(sep, title) = 0 THEN title
    ELSE SubSeq(title, 1, IndexOfSub(sep, title) - 1)

\* a search result for a LinkedIn company page
CompanyPage(title, slug) == [url |-> COMPANY_URL \o slug, title |-> title]

\* what the search provider may return: company pages, two of them for the
\* same company up to case
FoundResultLists ==
    {<<CompanyPage(S_Bo, S_bo)>>,
     <<CompanyPage(T_Al_VC, S_Al), CompanyPage(S_al, S_al)>>}

\* the processing loop of find_investors on company pages: one investor per
\* company name not seen before, compared in lower case (the results drawn here
\* take the "linkedin.com/company/" branch only)
RECURSIVE ProcessResultsLoop(_, _, _, _)
ProcessResultsLoop(investors, seen_names, results, i) ==
    IF i > Len(results) THEN investors
    ELSE LET result == results[i]
             company_name == BeforeSep(TITLE_SEP, result.title)
         IN  IF /\ Contains(COMPANY_URL, result.url)
                /\ company_name # <<>>
                /\ Lower(company_name) \notin seen_names
             THEN ProcessResultsLoop(
                    Append(investors, [name |-> company_name, linkedin_url |-> Some(result.url),
                                       enriched |-> FALSE]),
                    seen_names \cup {Lower(company_name)}, results, i + 1)
             ELSE ProcessResultsLoop(investors, seen_names, results, i + 1)

\* _enrich_investor_profiles as find_investors sees it: the profiles at the
\* indexes in done come back enriched, the others as they were
EnrichedAt(investors, done) ==
    [i \in 1..Len(investors) |->
        IF i \in done THEN [investors[i] EXCEPT !.enriched = TRUE] ELSE investors[i]]

\* the queries the chat service makes: sectors, no location, 30 results
FindQueries ==
    {[sectors |-> <<S_ai>>, location |-> None, num_results |-> 30],
     [sectors |-> <<S_AI>>, location |-> None, num_results |-> 30],
     [sectors |-> <<S_Bio>>, location |-> None, num_results |-> 30]}

\* if not location: location = "United States"
LocationOf(q) == IF q.location = None THEN UNITED_STATES ELSE Get(q.location)

FindKeys == {CacheKey(q.sectors, LocationOf(q), q.num_results) : q \in FindQueries}

NoResult == [investors |-> <<>>, search_results |-> <<>>]

\* no call made yet
NoFind ==
    [pc |-> "idle", calls |-> 0, key |-> <<>>, attempt |-> 0, trace |-> <<>>,
     search_results |-> <<>>, from_cache |-> FALSE, ret |-> NoResult]

InitFind ==
    /\ find = NoFind
    /\ parked = NoFind
    /\ search_max_retries \in RetriesChoices
    /\ cache = [k \in FindKeys |-> None]
    /\ search_cache_ttl_minutes \in TtlMinutesChoices
    /\ cacheOp = NoCacheOp

IdleFind ==
    /\ find = NoFind
    /\ parked = NoFind
    /\ search_max_retries = 2

\* what find_investors leaves alone
findFrame ==
    <<ctxVars, msgVars, keyVars, memVars, regVars, pgWalk, cacheOp, parked,
      search_cache_ttl_minutes, search_max_retries, enrichVars, chatVars>>

\* falling out of the try block with an exception: "Search failed" is logged
\* and the empty lists are returned
SearchFailed(f) == [f EXCEPT !.pc = "returned", !.ret = NoResult]

\* the end of one failed attempt that waits before every next loop turn, also
\* after the last attempt
AfterFailedAttemptAlwaysWaits(f, max_retries) == [f EXCEPT !.pc = "backoff"]

\* the end of one failed attempt: a backoff wait if attempts are left,
\* otherwise the loop is over with no results and the search has failed
AfterFailedAttempt(f, max_retries) ==
    IF f.attempt < max_retries THEN [f EXCEPT !.pc = "backoff"]
    ELSE SearchFailed(f)

\* find_investors is called: the cache lookup, and on a miss get_search
FindStart(q) ==
    LET key == CacheKey(q.sectors, LocationOf(q), q.num_results)
        g == GetCached(cache, key, clock, search_cache_ttl_minutes)
        me == [NoFind EXCEPT !.calls = find.calls + 1, !.key = key]
    IN  /\ find.pc \in {"idle", "returned"}
        /\ find.calls < MaxFindCalls
        /\ cache' = g.cache
        /\ IF g.ret # None
           THEN find' = [me EXCEPT !.pc = "returned", !.from_cache = TRUE,
                                   !.ret = [investors |-> Get(g.ret).investors,
                                            search_results |-> Get(g.ret).search_results]]
           ELSE \E provider_found \in BOOLEAN :
                    find' = IF provider_found THEN [me EXCEPT !.pc = "attempt"]
                            ELSE SearchFailed(me)
        /\ UNCHANGED <<all_investors, findFrame, clockVars>>

\* one turn of the retry loop: the provider's search_investors under wait_for
FindAttempt ==
    /\ find.pc = "attempt"
    /\ \/ \E results \in FoundResultLists :
            find' = [find EXCEPT !.trace = Append(@, "ok"), !.search_results = results,
                                 !.pc = "process"]
       \/ find' = SearchFailed([find EXCEPT !.trace = Append(@, "empty")])
       \/ \E failure \in {"timeout", "error"} :
            find' = AfterFailedAttempt([find EXCEPT !.trace = Append(@, failure)],
                                       search_max_retries)
    /\ UNCHANGED <<all_investors, cache, findFrame, clockVars>>

\* await asyncio.sleep(backoff), then the next turn of the loop
FindBackoff ==
    /\ find.pc = "backoff"
    /\ find' = [find EXCEPT !.trace = Append(@, "sleep"), !.attempt = @ + 1,
                            !.pc = "attempt"]
    /\ UNCHANGED <<all_investors, cache, findFrame, clockVars>>

\* after a search with results: the processing loop, the enrichment, the
\* pagination list, the cache entry, the return
FindProcess ==
    /\ find.pc = "process"
    /\ LET found == ProcessResultsLoop(<<>>, {}, find.search_results, 1)
       IN  \E done \in SUBSET (1..Len(found)) :
            LET investors == EnrichedAt(found, done)
            IN  /\ all_investors' = investors
                /\ cache' = SetCached(cache, find.key, investors, find.search_results,
                                      clock, search_cache_ttl_minutes)
                /\ find' = [find EXCEPT !.pc = "returned",
                                        !.ret = [investors |-> investors,
                                                 search_results |-> find.search_results]]
    /\ UNCHANGED <<findFrame, clockVars>>

NextFind ==
    \/ \E q \in FindQueries : FindStart(q)
    \/ FindAttempt
    \/ FindBackoff
    \/ FindProcess
    \/ TickClock

\* the provider calls of the find_investors call at hand
ProviderCalls(trace) == {i \in 1..Len(trace) : trace[i] # "sleep"}

\* C15: in one find_investors call that misses the cache the search provider is
\* invoked at most search_max_retries + 1 times; nothing follows an attempt that
\* completed without error or timeout; a backoff wait comes only after a failed
\* attempt and is followed by the next attempt, never after the last one; and
\* if no attempt brought results the call returns empty lists, it never raises.
C15_BoundedRetries ==
    LET trace == find.trace
    IN  /\ Cardinality(ProviderCalls(trace)) <= search_max_retries + 1
        /\ \A i \in 1..Len(trace) :
            /\ trace[i] \in {"ok", "empty"} => i = Len(trace)
            /\ trace[i] = "sleep" =>
                /\ i > 1 /\ trace[i - 1] \in {"timeout", "error"}
                /\ i < Len(trace) \/ find.pc = "attempt"
                /\ i < Len(trace) => trace[i + 1] # "sleep"
        /\ find.pc \in {"idle", "attempt", "backoff", "process", "returned"}
        /\ (find.pc = "returned" /\ ~find.from_cache /\ "ok" \notin Range(trace))
                => find.ret = NoResult

\* a call whose three attempts all failed, with a wait between them, and that
\* returned the empty lists
C15_Witness ==
    /\ find.pc = "returned"
    /\ find.trace = <<"timeout", "sleep", "error", "sleep", "timeout">>
    /\ find.ret = NoResult


\* C23: with a search-cache TTL of zero or less nothing is ever stored: the
\* cache stays empty after any sequence of find_investors calls, and no call
\* is answered from the cache, every one goes on to the search provider.
C23_TtlOffNoCache ==
    search_cache_ttl_minutes <= 0 =>
        /\ \A k \in DOMAIN cache : cache[k] = None
        /\ ~find.from_cache

\* with the TTL at zero or below, a second call has come back with investors
\* found by the search provider
C23_Witness ==
    /\ search_cache_ttl_minutes <= 0
    /\ find.calls = 2 /\ find.pc = "returned"
    /\ "ok" \in Range(find.trace)
    /\ find.ret.investors # <<>>


\* two find_investors coroutines on the one InvestorService: the event loop
\* leaves the running one at an await (the provider's search, the scraping
\* before the lists are stored) and runs the other, or, the running one having
\* returned, resumes the other at its await
FindSwitch ==
    /\ \/ find.pc \in {"attempt", "process"}
       \/ find.pc = "returned" /\ parked.pc \in {"attempt", "process"}
    /\ find' = parked
    /\ parked' = find
    /\ UNCHANGED <<all_investors, cache, cacheOp, pgWalk, search_cache_ttl_minutes,
                   search_max_retries, exceptFind, clockVars>>

\* a service with the cache on and no retry
InitFindPair ==
    /\ find = NoFind
    /\ parked = NoFind
    /\ search_max_retries = 0
    /\ cache = [k \in FindKeys |-> None]
    /\ search_cache_ttl_minutes = 1
    /\ cacheOp = NoCacheOp

\* two queries with different keys
PairQueries == {q \in FindQueries : q.sectors \in {<<S_ai>>, <<S_Bio>>}}

NextFindPair ==
    \/ \E q \in PairQueries : FindStart(q)
    \/ FindAttempt
    \/ FindProcess
    \/ FindSwitch
    \/ TickClock


\* the entry under key k is there and within its TTL
Fresh(k) ==
    /\ cache[k] # None
    /\ clock - Get(cache[k]).ts <= search_cache_ttl_minutes * 60

\* the pair an entry holds
PairOf(entry) == [investors |-> entry.investors, search_results |-> entry.search_results]

\* the running coroutine has taken a step (the event loop has not switched)
FindStep == parked' = parked /\ find' # find

\* a call answered from the cache returns the pair of the fresh entry under
\* its key and has called no provider; an entry goes away only once its TTL
\* is over
HitsAndExpiry ==
    /\ (FindStep /\ find'.from_cache) =>
            /\ Fresh(find'.key)
            /\ find'.ret = PairOf(Get(cache[find'.key]))
            /\ find'.trace = <<>>
            /\ cache' = cache
    /\ \A k \in FindKeys : (cache[k] # None /\ cache'[k] = None) => ~Fresh(k)

\* C26 as stated: a find_investors call that finds a fresh entry returns that
\* entry's pair and calls no provider, entries are removed only by TTL expiry,
\* and nothing overwrites a fresh entry with different content for its key.
C26_NoOverwriteOfFresh ==
    [][/\ HitsAndExpiry
       /\ \A k \in FindKeys :
            (Fresh(k) /\ cache'[k] # None) => PairOf(Get(cache'[k])) = PairOf(Get(cache[k]))
    ]_vars

\* C26: a find_investors call that finds a fresh entry returns that entry's
\* pair and calls no provider, and entries are removed only by TTL expiry; a
\* fresh entry is replaced only by the _set_cached of a find_investors call
\* for the same key that had missed the cache (a call that began before the
\* entry was stored and overlaps the one that stored it), with what that call
\* returns.
C26_OverwriteOnlyByOverlappingCall ==
    [][/\ HitsAndExpiry
       /\ \A k \in FindKeys :
            (Fresh(k) /\ cache'[k] # cache[k]) =>
                /\ FindStep
                /\ find.pc = "process" /\ find.key = k /\ ~find.from_cache
                /\ find'.pc = "returned"
                /\ cache'[k] # None
                /\ PairOf(Get(cache'[k])) = find'.ret
    ]_vars

\* two calls for one key have overlapped: both missed the cache, both
\* searched, and the entry holds what the one that ended last returned, not
\* what the other did
C26_Witness ==
    /\ clock = 0
    /\ find.pc = "returned" /\ parked.pc = "returned"
    /\ find.key = parked.key
    /\ ~find.from_cache /\ ~parked.from_cache
    /\ find.ret.investors # <<>> /\ parked.ret.investors # <<>>
    /\ find.ret # parked.ret
    /\ cache[find.key] # None
    /\ PairOf(Get(cache[find.key])) = find.ret


\* C28: after any find_investors call that returns a non-empty investor list
\* L, computed or taken from the cache, the list get_paginated_investors pages
\* over is L: get_paginated_investors(0, size) gives the first page of L.
C28_PagesOverReturned ==
    [][(FindStep /\ find'.pc = "returned" /\ find'.ret.investors # <<>>) =>
            /\ all_investors' = find'.ret.investors
            /\ \A size \in 1..MaxPageSize :
                    GetPaginatedInvestors(all_investors', 0, size) =
                        GetPaginatedInvestors(find'.ret.investors, 0, size)
    ]_vars

----------------------------------------------------------------------------
(* InvestorService._enrich_investor_profiles: a semaphore around enrich_one *)

\* the longest list handed to the enrichment
MaxEnrichList == 3

\* the default of the max_enrich parameter
DefaultMaxEnrich == 15

\* the max_enrich a call may pass: the default, and a limit a short list reaches
MaxEnrichChoices == {2, DefaultMaxEnrich}

\* Settings.linkedin_max_concurrency (default 3), Settings.linkedin_scrape_delay
ConcurrencyChoices == {0, 1, 2}
DelayChoices == {0, 2}

\* max(1, int(settings.linkedin_max_concurrency))
ScrapeMaxConcurrency(setting) == IF setting > 1 THEN setting ELSE 1

\* a profile to enrich: with or without a LinkedIn URL
ProfileNo(i, linkedin_url) ==
    [name |-> InvestorNo(i).name, linkedin_url |-> linkedin_url, enriched |-> FALSE]

EnrichInputs ==
    UNION {{[i \in 1..n |-> ProfileNo(i, url[i])] :
                url \in [1..n -> {None, Some(COMPANY_URL \o S_al)}]} : n \in 0..MaxEnrichList}

\* the selection loop: the first max_enrich indexes whose profile has a URL
RECURSIVE SelectToEnrich(_, _, _, _)
SelectToEnrich(to_enrich, investors, max_enrich, idx) ==
    IF idx > Len(investors) THEN to_enrich
    ELSE IF Len(to_enrich) < max_enrich /\ investors[idx].linkedin_url # None
         THEN SelectToEnrich(Append(to_enrich, idx), investors, max_enrich, idx + 1)
         ELSE SelectToEnrich(to_enrich, investors, max_enrich, idx + 1)

\* a semaphore that lets every task in
CanAcquireAlways(permits) == TRUE

\* Semaphore.acquire goes through without waiting while the value is positive
CanAcquire(permits) == permits > 0

NoEnrich ==
    [pc |-> "idle", input |-> <<>>, to_enrich |-> <<>>, task |-> <<>>,
     permits |-> 0, ret |-> <<>>]

\* an enrich_one task that has not entered the semaphore yet
NewTask(inv) == [pc |-> "waiting", outcome |-> "", result |-> inv]

InitEnrich ==
    /\ enrich = NoEnrich
    /\ linkedin_max_concurrency \in ConcurrencyChoices
    /\ linkedin_scrape_delay \in DelayChoices

IdleEnrich ==
    /\ enrich = NoEnrich
    /\ linkedin_max_concurrency = 1
    /\ linkedin_scrape_delay = 0

enrichFrame ==
    <<exceptEnrich, linkedin_max_concurrency, linkedin_scrape_delay, clockVars>>

\* the call up to gather: get_scraper, the hasattr test, the selection, the
\* semaphore; a scraper that cannot be had or cannot enrich, or an empty
\* selection, returns the input
EnrichStart(investors, max_enrich) ==
    /\ enrich.pc = "idle"
    /\ \E scraper \in {"raises", "no enrich_profile", "found"} :
        LET to_enrich == SelectToEnrich(<<>>, investors, max_enrich, 1)
        IN  enrich' =
              IF scraper # "found" \/ to_enrich = <<>>
              THEN [NoEnrich EXCEPT !.pc = "returned", !.input = investors, !.ret = investors]
              ELSE [NoEnrich EXCEPT
                      !.pc = "gather", !.input = investors, !.to_enrich = to_enrich,
                      !.task = [k \in 1..Len(to_enrich) |-> NewTask(investors[to_enrich[k]])],
                      !.permits = ScrapeMaxConcurrency(linkedin_max_concurrency)]
    /\ UNCHANGED enrichFrame

\* async with semaphore: the task enters and calls enrich_profile
EnrichAcquire(k) ==
    /\ enrich.pc = "gather"
    /\ enrich.task[k].pc = "waiting"
    /\ CanAcquire(enrich.permits)
    /\ enrich' = [enrich EXCEPT !.permits = @ - 1, !.task[k].pc = "calling"]
    /\ UNCHANGED enrichFrame

\* enrich_profile is over: it returned an enriched profile, returned the profile
\* as it was, or raised; then the finally block: the sleep if a delay is set,
\* otherwise the semaphore is released
EnrichProfileDone(k) ==
    /\ enrich.pc = "gather"
    /\ enrich.task[k].pc = "calling"
    /\ \E outcome \in {"enriched", "same", "raised"} :
        LET inv == enrich.input[enrich.to_enrich[k]]
            result == IF outcome = "enriched" THEN [inv EXCEPT !.enriched = TRUE] ELSE inv
        IN  enrich' =
              IF linkedin_scrape_delay # 0
              THEN [enrich EXCEPT !.task[k] = [pc |-> "sleeping", outcome |-> outcome,
                                               result |-> result]]
              ELSE [enrich EXCEPT !.task[k] = [pc |-> "done", outcome |-> outcome,
                                               result |-> result],
                                  !.permits = @ + 1]
    /\ UNCHANGED enrichFrame

\* the sleep of the finally block is over: the semaphore is released
EnrichSleepDone(k) ==
    /\ enrich.pc = "gather"
    /\ enrich.task[k].pc = "sleeping"
    /\ enrich' = [enrich EXCEPT !.task[k].pc = "done", !.permits = @ + 1]
    /\ UNCHANGED enrichFrame

\* gather has every result: they are written into the copy of the list
EnrichReturn ==
    /\ enrich.pc = "gather"
    /\ \A k \in 1..Len(enrich.task) : enrich.task[k].pc = "done"
    /\ enrich' =
        [enrich EXCEPT
            !.pc = "returned",
            !.ret = [i \in 1..Len(enrich.input) |->
                        IF i \in Range(enrich.to_enrich)
                        THEN enrich.task[CHOOSE k \in 1..Len(enrich.to_enrich) : enrich.to_enrich[k] = i].result
                        ELSE enrich.input[i]]]
    /\ UNCHANGED enrichFrame

NextEnrich ==
    \/ \E investors \in EnrichInputs, max_enrich \in MaxEnrichChoices :
            EnrichStart(investors, max_enrich)
    \/ \E k \in 1..Len(enrich.task) : EnrichAcquire(k)
    \/ \E k \in 1..Len(enrich.task) : EnrichProfileDone(k)
    \/ \E k \in 1..Len(enrich.task) : EnrichSleepDone(k)
    \/ EnrichReturn

\* the enrich_profile calls in flight
InFlight == {k \in 1..Len(enrich.task) : enrich.task[k].pc = "calling"}

\* C16: never more enrich_profile calls in flight than the maximum concurrency,
\* which is at least 1; when the function has returned every task is over; a
\* task whose enrich_profile raised left its profile as it was; the returned
\* list has the input's length and every profile that was not selected is
\* unchanged at its index.
C16_BoundedEnrichment ==
    /\ ScrapeMaxConcurrency(linkedin_max_concurrency) >= 1
    /\ Cardinality(InFlight) <= ScrapeMaxConcurrency(linkedin_max_concurrency)
    /\ enrich.pc = "returned" =>
        /\ \A k \in 1..Len(enrich.task) :
            /\ enrich.task[k].pc = "done"
            /\ enrich.task[k].outcome = "raised" =>
                    enrich.ret[enrich.to_enrich[k]] = enrich.input[enrich.to_enrich[k]]
        /\ Len(enrich.ret) = Len(enrich.input)
        /\ \A i \in 1..Len(enrich.input) :
            (i \notin Range(enrich.to_enrich) \/ enrich.input[i].linkedin_url = None)
                => enrich.ret[i] = enrich.input[i]

\* three profiles with a URL, two selected, one of them raised and one was
\* enriched, and the third came back untouched
C16_Witness ==
    /\ enrich.pc = "returned"
    /\ Len(enrich.input) = 3
    /\ enrich.to_enrich = <<1, 2>>
    /\ enrich.input[3].linkedin_url # None
    /\ enrich.task[1].outcome = "raised"
    /\ enrich.task[2].outcome = "enriched"
    /\ enrich.ret[2].enriched
    /\ linkedin_max_concurrency = 0

----------------------------------------------------------------------------
(* ChatService: a turn of process_message or process_message_stream *)

\* how many turns one run makes
MaxTurns == 3

\* the page size of _pagination_state
PAGE_SIZE == 10

\* the list lengths a search brings: less than a page, more than a page
FoundCounts == {3, 12}

\* ChatService.initialize configures the memory service
ChatMemCfg ==
    [max_conversations |-> 1000, ttl_hours |-> 24, max_messages |-> 100,
     persistence |-> TRUE]

M_show_more == F_show \o F_more \o F_INVESTORS    \* "Show more INVESTORS"
M_find == F_find \o F_INVESTORS    \* "find INVESTORS"
S_startup == <<115, 116, 97, 114, 116, 117, 112>>    \* "startup"
S_technology == <<116, 101, 99, 104, 110, 111, 108, 111, 103, 121>>
    \* "technology"

\* a pagination request that names investors, a search request, small talk
ChatMessages == {M_show_more, M_find, F_hello}

\* _extract_sectors for a message with none of the SECTOR_KEYWORDS in it, as
\* the messages here are: the default sectors
ExtractSectors(msg) == <<S_startup, S_technology>>

\* what find_investors brings when it finds n investors
Found(n) ==
    [investors |-> [i \in 1..n |-> InvestorNo(i)], search_results |-> <<SearchResult(S_Al)>>]

\* what find_investors did for the turn: it found investors, it returned the
\* empty lists after a failed search, or it raised
FindOutcomes ==
    {[how |-> "found", ret |-> Found(n)] : n \in FoundCounts}
        \cup {[how |-> "failed", ret |-> NoResult], [how |-> "raised", ret |-> NoResult]}

\* new_investors[:n]
FirstN(list, n) == Slice(list, 0, Min(n, Len(list)))

TurnIds == 1..MaxTurns

NoReturn == [type |-> "none", message |-> "none", investors |-> <<>>]

\* a turn not started: the request, the locals of the coroutine, the provider
\* calls it made, the conversation and the cursor as they were when it
\* started, the investors_found event it yielded, and what it returned or
\* yielded last
NoTurn ==
    [pc |-> "idle", kind |-> "message", conversation_id |-> "", message |-> <<>>,
     resolved |-> FALSE, find |-> "none", generated |-> FALSE,
     new_investors |-> <<>>, new_search_results |-> <<>>, sectors |-> <<>>,
     current_page_investors |-> <<>>, display_investors |-> <<>>,
     calls |-> [find |-> 0, llm |-> 0],
     before |-> None, cursor_before |-> 0, found_event |-> None, ret |-> NoReturn]

\* _pagination_state[conversation_id] as process_message_stream creates it
NewPaginationState == [current_page |-> 0, all_investors |-> <<>>, page_size |-> PAGE_SIZE]

InitChat ==
    /\ turns = [t \in TurnIds |-> NoTurn]
    /\ pagination_state = [id \in ConvIds |-> None]
    /\ conversations = <<>>
    /\ files = [id \in ConvIds |-> None]
    /\ memCfg = ChatMemCfg
    /\ memOp = NoMemOp

IdleChat ==
    /\ turns = [t \in TurnIds |-> NoTurn]
    /\ pagination_state = [id \in ConvIds |-> None]

\* what a turn leaves alone
chatFrame ==
    <<ctxVars, pageVars, msgVars, keyVars, cacheVars, memCfg, regVars, findVars,
      enrichVars, clockVars>>

\* the conversation as get_conversation would give it, None if there is none
StoredContext(convs, fs, cfg, id) ==
    LET g == GetConversation(convs, fs, cfg, id)
    IN  IF g.how = "none" THEN None ELSE Some(g.convs[IndexOf(g.convs, id)])

\* the investors and search results of an optional context
InvestorsOf(ctx) == IF ctx = None THEN <<>> ELSE Get(ctx).investors
SearchResultsOf(ctx) == IF ctx = None THEN <<>> ELSE Get(ctx).search_results
MessagesOf(ctx) == IF ctx = None THEN <<>> ELSE Get(ctx).messages

\* the pagination branch that moves the cursor whether or not a page is left
PaginationBranchAlwaysAdvances(state) ==
    LET current_page == state.current_page + 1
        start_idx == current_page * state.page_size
        end_idx == Min(start_idx + state.page_size, Len(state.all_investors))
    IN  [state |-> [state EXCEPT !.current_page = current_page],
         page |-> Slice(state.all_investors, start_idx, end_idx)]

\* the pagination branch of process_message_stream: the next page and the
\* cursor moved onto it if there is one, otherwise nothing
PaginationBranch(state) ==
    LET current_page == state.current_page + 1
        start_idx == current_page * state.page_size
        end_idx == Min(start_idx + state.page_size, Len(state.all_investors))
    IN  IF start_idx < Len(state.all_investors)
        THEN [state |-> [state EXCEPT !.current_page = current_page],
              page |-> Slice(state.all_investors, start_idx, end_idx)]
        ELSE [state |-> state, page |-> <<>>]

\* the branch taken with the search test made first
BranchOfSearchFirst(kind, msg) ==
    IF ShouldSearchInvestorsNoGuard(msg) THEN "search"
    ELSE IF kind = "stream" /\ IsPaginationRequest(msg) THEN "pagination"
    ELSE "plain"

\* the branch a turn takes once it has its LLM provider: process_message
\* searches or not, process_message_stream tests for pagination first
BranchOf(kind, msg) ==
    IF kind = "stream" /\ IsPaginationRequest(msg) THEN "pagination"
    ELSE IF ShouldSearchInvestors(msg) THEN "search"
    ELSE "plain"

\* the provider error not followed by a return
AfterResolveFallsThrough(turn, resolved) == [turn EXCEPT !.resolved = resolved]

\* the end of the provider resolution: on an exception the error is returned
\* (process_message) or yielded before the return (process_message_stream)
AfterResolve(turn, resolved) ==
    IF resolved THEN [turn EXCEPT !.resolved = TRUE]
    ELSE [turn EXCEPT !.pc = "returned",
                      !.ret = [type |-> IF turn.kind = "stream" THEN "error" ELSE "response",
                               message |-> "failed to initialize the model provider",
                               investors |-> <<>>]]

\* the response that carries the investors of this turn only
ResponseInvestorsNewOnly(conversation, new_investors) == new_investors

\* all_investors = conversation.investors if conversation else new_investors
ResponseInvestors(conversation, new_investors) ==
    IF conversation # None THEN Get(conversation).investors ELSE new_investors

\* a turn is called
ChatStart(t, kind, id, msg) ==
    /\ turns[t].pc = "idle"
    /\ \A u \in 1..(t - 1) : turns[u].pc # "idle"
    /\ turns' = [turns EXCEPT ![t] =
            [NoTurn EXCEPT
                !.pc = "resolving", !.kind = kind, !.conversation_id = id, !.message = msg,
                !.before = StoredContext(conversations, files, memCfg, id),
                !.cursor_before = IF pagination_state[id] = None THEN 0
                                  ELSE Get(pagination_state[id]).current_page]]
    /\ pagination_state' =
            IF kind = "stream" /\ pagination_state[id] = None
            THEN [pagination_state EXCEPT ![id] = Some(NewPaginationState)]
            ELSE pagination_state
    /\ UNCHANGED <<conversations, files, memOp, chatFrame>>

\* what build_context_for_llm is given as new_investors
InvestorsForContext(turn) ==
    IF turn.kind = "message" THEN turn.new_investors
    ELSE IF turn.current_page_investors # <<>> THEN turn.current_page_investors
    ELSE FirstN(turn.new_investors, 10)

\* the investors process_message_stream shows: the page at hand, else the first
\* ten of the pagination state's list or, if that is empty, of the conversation's
DisplayInvestors(turn, state, conversation) ==
    IF turn.kind = "message" THEN <<>>
    ELSE IF turn.current_page_investors # <<>> THEN turn.current_page_investors
    ELSE IF state # None /\ Get(state).all_investors # <<>>
         THEN FirstN(Get(state).all_investors, 10)
    ELSE FirstN(ResponseInvestors(conversation, turn.new_investors), 10)

\* the turn once the memory service has merged its data into the conversation
\* (b): the investors to show are chosen and the LLM provider is called
GenerateOn(b, t, turn, pstate) ==
    /\ conversations' = b.convs
    /\ files' = b.files
    /\ memOp' = b.op
    /\ pagination_state' = pstate
    /\ turns' = [turns EXCEPT ![t] =
            [turn EXCEPT
                !.pc = "generating", !.calls.llm = @ + 1,
                !.display_investors =
                    DisplayInvestors(turn, pstate[turn.conversation_id],
                                     StoredContext(b.convs, b.files, memCfg,
                                                   turn.conversation_id))]]

\* build_context_for_llm with what the turn has, get_conversation, the choice of
\* the investors to show, and the call of the LLM provider
BuildAndGenerate(t, turn, pstate) ==
    GenerateOn(BuildContextForLlm(conversations, files, memCfg, turn.conversation_id,
                                  turn.message,
                                  [investors |-> InvestorsForContext(turn),
                                   search_results |-> turn.new_search_results,
                                   sectors |-> turn.sectors], utcnow),
               t, turn, pstate)

\* get_llm is over: without a provider the turn ends; with one it takes its
\* branch up to the next provider call
ChatResolved(t) ==
    /\ turns[t].pc = "resolving"
    /\ \E resolved \in BOOLEAN :
        LET turn == AfterResolve(turns[t], resolved)
            id == turn.conversation_id
            branch == BranchOf(turn.kind, turn.message)
        IN  IF turn.pc = "returned"
            THEN /\ turns' = [turns EXCEPT ![t] = turn]
                 /\ UNCHANGED <<pagination_state, conversations, files, memOp>>
            ELSE IF branch = "pagination"
            THEN LET b == PaginationBranch(Get(pagination_state[id]))
                 IN  BuildAndGenerate(t, [turn EXCEPT !.current_page_investors = b.page],
                                      [pagination_state EXCEPT ![id] = Some(b.state)])
            ELSE IF branch = "search"
            THEN /\ turns' = [turns EXCEPT ![t] =
                        [turn EXCEPT !.pc = "searching", !.calls.find = @ + 1,
                                     !.sectors = ExtractSectors(turn.message)]]
                 /\ UNCHANGED <<pagination_state, conversations, files, memOp>>
            ELSE BuildAndGenerate(t, turn, pagination_state)
    /\ UNCHANGED chatFrame

\* the search branch that stores the new list and leaves the cursor where it is
SearchBranchStateKeepsCursor(state, new_investors) ==
    [state EXCEPT !.all_investors = new_investors]

\* the search branch of process_message_stream on the pagination state: the
\* new list, the cursor on its first page
SearchBranchState(state, new_investors) ==
    [state EXCEPT !.all_investors = new_investors, !.current_page = 0]

\* the investors_found event of the search branch, if it yields one: the
\* first page is shown, remaining is the count less the page size
InvestorsFoundEvent(new_investors, page_size) ==
    IF new_investors # <<>>
    THEN Some([count |-> Len(new_investors),
               showing |-> Len(FirstN(new_investors, page_size)),
               has_more |-> (Len(new_investors) - page_size > 0),
               remaining |-> Len(new_investors) - page_size])
    ELSE None

\* find_investors is over
ChatSearched(t) ==
    /\ turns[t].pc = "searching"
    /\ \E outcome \in FindOutcomes :
        LET id == turns[t].conversation_id
            turn == [turns[t] EXCEPT !.find = outcome.how,
                                     !.new_investors = outcome.ret.investors,
                                     !.new_search_results = outcome.ret.search_results]
        IN  IF turn.kind = "stream" /\ outcome.how # "raised"
            THEN BuildAndGenerate(
                    t, [turn EXCEPT !.current_page_investors =
                                        FirstN(turn.new_investors,
                                               Get(pagination_state[id]).page_size),
                                    !.found_event =
                                        InvestorsFoundEvent(
                                            turn.new_investors,
                                            Get(pagination_state[id]).page_size)],
                    [pagination_state EXCEPT ![id] =
                        Some(SearchBranchState(Get(@), turn.new_investors))])
            ELSE BuildAndGenerate(t, turn, pagination_state)
    /\ UNCHANGED chatFrame

\* the LLM call is over: the answer is recorded and returned, or the error is
\* turned into the response (process_message) or yielded (process_message_stream)
ChatGenerated(t) ==
    /\ turns[t].pc = "generating"
    /\ \E generated \in BOOLEAN :
        LET turn == turns[t]
            id == turn.conversation_id
            a == IF generated
                 THEN AddAssistantResponse(conversations, files, memCfg, id, M_ok, utcnow)
                 ELSE [convs |-> conversations, files |-> files, op |-> memOp]
            conversation == StoredContext(a.convs, a.files, memCfg, id)
            ret == IF turn.kind = "message"
                   THEN [type |-> "response",
                         message |-> IF generated THEN "generated"
                                     ELSE "an error occurred while generating a response",
                         investors |-> ResponseInvestors(conversation, turn.new_investors)]
                   ELSE [type |-> IF generated THEN "done" ELSE "error",
                         message |-> IF generated THEN "generated"
                                     ELSE "Error generating response",
                         investors |-> IF generated THEN turn.display_investors ELSE <<>>]
        IN  /\ conversations' = a.convs
            /\ files' = a.files
            /\ memOp' = a.op
            /\ turns' = [turns EXCEPT ![t] =
                    [turn EXCEPT !.pc = "returned", !.generated = generated, !.ret = ret]]
    /\ UNCHANGED <<pagination_state, chatFrame>>

\* no turn is under way
NoTurnActive == \A t \in TurnIds : turns[t].pc \in {"idle", "returned"}

\* one client: a turn is called when the one before has returned
NextChat ==
    \/ \E t \in TurnIds, kind \in {"message", "stream"}, msg \in ChatMessages :
            NoTurnActive /\ ChatStart(t, kind, "c1", msg)
    \/ \E t \in TurnIds : ChatResolved(t)
    \/ \E t \in TurnIds : ChatSearched(t)
    \/ \E t \in TurnIds : ChatGenerated(t)

\* the turn called last
IsLatest(t) == turns[t].pc # "idle" /\ \A u \in TurnIds : u > t => turns[u].pc = "idle"

\* the conversation of turn t as the memory service holds it now
NowStored(t) == StoredContext(conversations, files, memCfg, turns[t].conversation_id)

\* the conversation of turn t when the turn was called, a new one if there was none
BeforeOrNew(t) ==
    IF turns[t].before = None THEN ConversationContext(turns[t].conversation_id, utcnow)
    ELSE Get(turns[t].before)

\* the page cursor of the conversation of turn t
CursorOf(t) ==
    IF pagination_state[turns[t].conversation_id] = None THEN 0
    ELSE Get(pagination_state[turns[t].conversation_id]).current_page

\* the investors the pagination state of the conversation of turn t holds
StateInvestorsOf(t) ==
    IF pagination_state[turns[t].conversation_id] = None THEN <<>>
    ELSE Get(pagination_state[turns[t].conversation_id]).all_investors

\* C12: a process_message turn whose search failed (find_investors returned the
\* empty lists or raised) is not aborted: the conversation's stored investors
\* and search results are what they were when the turn was called, the LLM
\* provider is called, and the response carries the investors already stored.
C12_SearchFailureKeepsTurn ==
    \A t \in TurnIds :
        (IsLatest(t) /\ turns[t].kind = "message" /\ turns[t].find \in {"failed", "raised"}) =>
            /\ turns[t].pc \in {"generating", "returned"}
            /\ InvestorsOf(NowStored(t)) = InvestorsOf(turns[t].before)
            /\ SearchResultsOf(NowStored(t)) = SearchResultsOf(turns[t].before)
            /\ turns[t].calls.llm = 1
            /\ turns[t].pc = "returned" =>
                /\ turns[t].ret.type = "response"
                /\ turns[t].ret.investors = InvestorsOf(turns[t].before)

\* a turn whose search failed and that answered with the investors of an
\* earlier turn
C12_Witness ==
    \E t \in TurnIds :
        /\ IsLatest(t) /\ turns[t].kind = "message" /\ turns[t].find = "failed"
        /\ turns[t].pc = "returned" /\ turns[t].generated
        /\ Len(turns[t].ret.investors) = 12

\* C13: when the LLM call of a process_message turn fails the turn returns a
\* response, the apology, and the conversation holds the messages it held
\* before and then the user's message of this turn: no assistant message.
C13_LlmFailureAnswered ==
    \A t \in TurnIds :
        (IsLatest(t) /\ turns[t].kind = "message" /\ turns[t].pc = "returned"
            /\ turns[t].resolved /\ ~turns[t].generated) =>
            /\ turns[t].ret.type = "response"
            /\ turns[t].ret.message = "an error occurred while generating a response"
            /\ MessagesOf(NowStored(t)) =
                    Append(MessagesOf(turns[t].before),
                           [role |-> "user", content |-> turns[t].message])

\* the LLM call failed in the second turn of a conversation
C13_Witness ==
    \E t \in TurnIds :
        /\ IsLatest(t) /\ turns[t].kind = "message" /\ turns[t].pc = "returned"
        /\ turns[t].resolved /\ ~turns[t].generated
        /\ Len(MessagesOf(turns[t].before)) = 2
        /\ Len(MessagesOf(NowStored(t))) = 3

\* C14: a turn, of process_message or of process_message_stream, whose LLM
\* provider cannot be resolved ends with the error for the user, calls neither
\* find_investors (the way to the search and scraper providers) nor the LLM,
\* and leaves the conversation as it was, or as it was with the user's message
\* added.
C14_UnresolvedProviderEndsTurn ==
    \A t \in TurnIds :
        (IsLatest(t) /\ turns[t].pc \notin {"idle", "resolving"} /\ ~turns[t].resolved) =>
            /\ turns[t].pc = "returned"
            /\ turns[t].ret.type = (IF turns[t].kind = "stream" THEN "error" ELSE "response")
            /\ turns[t].ret.message = "failed to initialize the model provider"
            /\ turns[t].calls = [find |-> 0, llm |-> 0]
            /\ \/ NowStored(t) = turns[t].before
               \/ NowStored(t) = Some(AddMessage(BeforeOrNew(t), "user", turns[t].message, utcnow))

\* a streaming search request in a conversation with stored investors, ended
\* by the provider error
C14_Witness ==
    \E t \in TurnIds :
        /\ IsLatest(t) /\ turns[t].pc = "returned" /\ ~turns[t].resolved
        /\ turns[t].kind = "stream" /\ turns[t].message = M_find
        /\ InvestorsOf(turns[t].before) # <<>>

\* C18 as stated: every streaming pagination turn leaves the page cursor one
\* above where it was.
C18_EveryPaginationTurnAdvances ==
    \A t \in TurnIds :
        (IsLatest(t) /\ turns[t].kind = "stream" /\ IsPaginationRequest(turns[t].message)
            /\ turns[t].pc = "returned") =>
            CursorOf(t) = turns[t].cursor_before + 1

\* C18: a streaming pagination turn leaves the page cursor one above where it
\* was if its LLM provider was resolved and a further page exists, that is if
\* (current_page + 1) * page_size is less than the number of investors in the
\* pagination state; otherwise it leaves the cursor where it was.
C18_AdvancesWhenPageLeft ==
    \A t \in TurnIds :
        (IsLatest(t) /\ turns[t].kind = "stream" /\ IsPaginationRequest(turns[t].message)
            /\ turns[t].pc = "returned") =>
            CursorOf(t) = turns[t].cursor_before +
                (IF /\ turns[t].resolved
                    /\ (turns[t].cursor_before + 1) * PAGE_SIZE < Len(StateInvestorsOf(t))
                 THEN 1 ELSE 0)

\* a pagination turn that moved the cursor from 0 to 1
C18_Witness ==
    \E t \in TurnIds :
        /\ IsLatest(t) /\ turns[t].kind = "stream" /\ IsPaginationRequest(turns[t].message)
        /\ turns[t].pc = "returned"
        /\ turns[t].cursor_before = 0 /\ CursorOf(t) = 1

C27_CursorOnAPage ==
    /\ [](\A id \in ConvIds :
            pagination_state[id] # None =>
                \/ Get(pagination_state[id]).current_page = 0
                \/ Get(pagination_state[id]).current_page
                        * Get(pagination_state[id]).page_size
                            < Len(Get(pagination_state[id]).all_investors))
    /\ [][\A t \in TurnIds :
            (/\ turns[t].pc = "searching" /\ turns'[t].pc # "searching"
             /\ turns'[t].kind = "stream" /\ turns'[t].find \in {"found", "failed"}) =>
                /\ Get(pagination_state'[turns'[t].conversation_id]).current_page = 0
                /\ Get(pagination_state'[turns'[t].conversation_id]).all_investors =
                        turns'[t].new_investors
       ]_vars

\* a search whose find_investors returned nothing has come after a turn that
\* had moved the cursor to the second page: the cursor is back on page 0 of an
\* empty list
C27_Witness ==
    \E t \in TurnIds :
        /\ IsLatest(t) /\ turns[t].kind = "stream" /\ turns[t].find = "failed"
        /\ turns[t].cursor_before = 1
        /\ turns[t].pc = "returned"
        /\ CursorOf(t) = 0

\* C30: in every investors_found event, after a search that found n >= 1
\* investors with page size s, showing = min(n, s), remaining = n - showing,
\* remaining is not negative, and has_more holds exactly when remaining > 0.
C30_FoundEventCounts ==
    \A t \in TurnIds :
        turns[t].found_event # None =>
            LET e == Get(turns[t].found_event)
                n == Len(turns[t].new_investors)
            IN  /\ n >= 1
                /\ e.showing = Min(n, PAGE_SIZE)
                /\ e.remaining = n - e.showing
                /\ e.remaining >= 0
                /\ e.has_more <=> e.remaining > 0

----------------------------------------------------------------------------
(* Two turns on one conversation id, interleaved at their provider calls *)

\* the two turns
RaceTurnIds == {1, 2}

\* two clients: the second turn is called while the first is under way or over
NextRace ==
    \/ \E t \in RaceTurnIds, kind \in {"message", "stream"}, msg \in ChatMessages :
            ChatStart(t, kind, "c1", msg)
    \/ \E t \in RaceTurnIds : ChatResolved(t)
    \/ \E t \in RaceTurnIds : ChatSearched(t)
    \/ \E t \in RaceTurnIds : ChatGenerated(t)

\* the turns that have merged their data into the conversation, and those
\* whose answer has been recorded
Merged == {t \in RaceTurnIds : turns[t].resolved /\ turns[t].pc \in {"generating", "returned"}}
Answered == {t \in RaceTurnIds : turns[t].pc = "returned" /\ turns[t].generated}

RaceStored == StoredContext(conversations, files, memCfg, "c1")

\* everything the turns merged is in the conversation: each investor (by its
\* name in lower case) and each search result (by its URL), one user message
\* for each turn that merged and one assistant message for each answer
RaceKept ==
    /\ \A t \in Merged :
        /\ \A inv \in Range(InvestorsForContext(turns[t])) :
                \E held \in Range(InvestorsOf(RaceStored)) : Lower(held.name) = Lower(inv.name)
        /\ \A r \in Range(turns[t].new_search_results) :
                \E held \in Range(SearchResultsOf(RaceStored)) : held.url = r.url
    /\ \A msg \in ChatMessages :
            Count(MessagesOf(RaceStored), [role |-> "user", content |-> msg])
                = Cardinality({t \in Merged : turns[t].message = msg})
    /\ Count(MessagesOf(RaceStored), [role |-> "assistant", content |-> M_ok])
            = Cardinality(Answered)

RaceDone == \A t \in RaceTurnIds : turns[t].pc = "returned"

----------------------------------------------------------------------------
(* Specifications: one per component, the other components at rest *)

IdleClocks == utcnow = 0 /\ clock = 0

\* Ctx: the component in its initial state, the others at rest
InitSpecCtx ==
    /\ InitCtx /\ IdlePage /\ IdleMsg /\ IdleKey
    /\ IdleCache /\ IdleMem /\ IdleReg /\ IdleFind /\ IdleEnrich /\ IdleChat /\ IdleClocks

SpecCtx == InitSpecCtx /\ [][NextCtx]_vars

\* Page: the component in its initial state, the others at rest
InitSpecPage ==
    /\ IdleCtx /\ InitPage /\ IdleMsg /\ IdleKey
    /\ IdleCache /\ IdleMem /\ IdleReg /\ IdleFind /\ IdleEnrich /\ IdleChat /\ IdleClocks

SpecPage == InitSpecPage /\ [][NextPage]_vars

\* Msg: the component in its initial state, the others at rest
InitSpecMsg ==
    /\ IdleCtx /\ IdlePage /\ InitMsg /\ IdleKey
    /\ IdleCache /\ IdleMem /\ IdleReg /\ IdleFind /\ IdleEnrich /\ IdleChat /\ IdleClocks

SpecMsg == InitSpecMsg /\ [][NextMsg]_vars

\* Key: the component in its initial state, the others at rest
InitSpecKey ==
    /\ IdleCtx /\ IdlePage /\ IdleMsg /\ InitKey
    /\ IdleCache /\ IdleMem /\ IdleReg /\ IdleFind /\ IdleEnrich /\ IdleChat /\ IdleClocks

SpecKey == InitSpecKey /\ [][NextKey]_vars

\* KeySep: _cache_key on strings that hold its separators
InitSpecKeySep ==
    /\ IdleCtx /\ IdlePage /\ IdleMsg /\ InitKeySep
    /\ IdleCache /\ IdleMem /\ IdleReg /\ IdleFind /\ IdleEnrich /\ IdleChat /\ IdleClocks

SpecKeySep == InitSpecKeySep /\ [][NextKey]_vars

\* Cache: the component in its initial state, the others at rest
InitSpecCache ==
    /\ IdleCtx /\ IdlePage /\ IdleMsg /\ IdleKey
    /\ InitCache /\ IdleMem /\ IdleReg /\ IdleFind /\ IdleEnrich /\ IdleChat /\ IdleClocks

SpecCache == InitSpecCache /\ [][NextCache]_vars

\* Mem: the component in its initial state, the others at rest
InitSpecMem ==
    /\ IdleCtx /\ IdlePage /\ IdleMsg /\ IdleKey
    /\ IdleCache /\ InitMem /\ IdleReg /\ IdleFind /\ IdleEnrich /\ IdleChat /\ IdleClocks

SpecMem == InitSpecMem /\ [][NextMem]_vars

\* Reg: the component in its initial state, the others at rest
InitSpecReg ==
    /\ IdleCtx /\ IdlePage /\ IdleMsg /\ IdleKey
    /\ IdleCache /\ IdleMem /\ InitReg /\ IdleFind /\ IdleEnrich /\ IdleChat /\ IdleClocks

SpecReg == InitSpecReg /\ [][NextReg]_vars

\* Resolve: the registry under resolutions that fail
SpecResolve == InitSpecReg /\ [][NextResolve]_vars

\* Find: the component in its initial state, the others at rest
InitSpecFind ==
    /\ IdleCtx /\ IdlePage /\ IdleMsg /\ IdleKey
    /\ IdleMem /\ IdleReg /\ InitFind /\ IdleEnrich /\ IdleChat /\ IdleClocks

SpecFind == InitSpecFind /\ [][NextFind]_vars

\* FindPair: two find_investors coroutines on one service
InitSpecFindPair ==
    /\ IdleCtx /\ IdlePage /\ IdleMsg /\ IdleKey
    /\ IdleMem /\ IdleReg /\ InitFindPair /\ IdleEnrich /\ IdleChat /\ IdleClocks

SpecFindPair == InitSpecFindPair /\ [][NextFindPair]_vars

\* Enrich: the component in its initial state, the others at rest
InitSpecEnrich ==
    /\ IdleCtx /\ IdlePage /\ IdleMsg /\ IdleKey
    /\ IdleCache /\ IdleMem /\ IdleReg /\ IdleFind /\ InitEnrich /\ IdleChat /\ IdleClocks

SpecEnrich == InitSpecEnrich /\ [][NextEnrich]_vars

\* Chat: the component in its initial state, the others at rest
InitSpecChat ==
    /\ IdleCtx /\ IdlePage /\ IdleMsg /\ IdleKey
    /\ IdleCache /\ IdleReg /\ IdleFind /\ IdleEnrich /\ InitChat /\ IdleClocks

SpecChat == InitSpecChat /\ [][NextChat]_vars

\* TurnMem: the memory service under the calls of the turns
InitSpecTurnMem ==
    /\ IdleCtx /\ IdlePage /\ IdleMsg /\ IdleKey
    /\ IdleCache /\ InitTurnMem /\ IdleReg /\ IdleFind /\ IdleEnrich /\ IdleChat /\ IdleClocks

SpecTurnMem == InitSpecTurnMem /\ [][NextTurnMem]_vars

\* two concurrent turns, from the chat service's initial state
SpecRace == InitSpecChat /\ [][NextRace]_vars

====
